---- MODULE Spec2Model ----
(***************************************************************************)
(* Verification model of the resilient execution core sketched in the      *)
(* repository: the two-tier CacheManager, the ApiClient.get pipeline       *)
(* (cache -> rate limiter -> circuit breaker -> network) and the order     *)
(* submission path (placeOrderWithRetry -> TradingService.placeOrder ->    *)
(* POST /orders/).                                                         *)
(*                                                                         *)
(* JavaScript runs one task at a time: every action below is the code one  *)
(* task runs between two awaits.  Commands sent to Redis travel on one     *)
(* connection and are served in the order they were issued, so a command   *)
(* takes effect in the step that issues it; the code after the await (the  *)
(* continuation) is a later step.                                          *)
(***************************************************************************)
EXTENDS Integers, Sequences, FiniteSets, TLC

\* ------------------------------------------------------------------ bounds
MaxTicks == 3          \* how many times the clock advances in one behaviour
NumGetters == 2        \* concurrent callers of CacheManager.get
MaxLimiterTicks == 5   \* clock advances while the rate limiter is called
MaxBurst == 52         \* checkLimit calls in one sequence

\* ------------------------------------------------------- program constants
defaultTTL == 60       \* cacheConfig.defaultTTL (seconds)
L1MaxTTL == 60000      \* the cap / repopulation TTL of the local tier (ms)
MsPerSecond == 1000    \* Redis SETEX takes seconds, Date.now() is in ms

\* ------------------------------------------------------------ input domains
\* Cache keys and patterns are strings, written as sequences of characters.
Keys == { <<"a">>, <<"b", "a">> }
Patterns == { <<"a">>, <<"a", "*">>, <<"b", "*">>, <<"*">> }
\* JavaScript values handed to the cache: the numbers 0 and 1 and NaN.
Values == { "0", "1", "NaN" }
Null == "null"         \* the JavaScript null: what get reports as a miss
Nil == "nil"           \* the Redis nil reply
\* ttl arguments in seconds; 0 stands for an omitted (or zero) ttl
TTLs == { 0, 1 }
\* clock advances in milliseconds
TickDeltas == { 500, 60000 }
Getters == 1..NumGetters
\* Request urls, written as the sequence of their path segments:
\* <<"quotes", "AAPL">> is '/quotes/AAPL/'
Urls == { <<"quotes", "AAPL">> }
\* Endpoints handed to RateLimiter.checkLimit: of the classes '/quotes/' and
\* '/orders/', and one, '/instruments/', of no class
Endpoints == { <<"quotes", "AAPL">>, <<"orders">>, <<"instruments">> }
\* ApiClient.getCacheKey: `${method}:${url}:${params}`, no params given
getCacheKey(method, url) == <<method, ":">> \o url \o <<":">>
\* Keys of the snapshot families, written as <<family, ":", rest>>:
\* <<"positions", ":", "acct">> is 'positions:acct', and <<"positions", ":",
\* "*">> is the string 'positions:*'
OrderFamilies == { "positions", "portfolio", "orders", "balance" }
TransferFamilies == { "balance", "portfolio", "account" }
StarKey(family) == << family, ":", "*" >>
SnapshotKeys == { <<"positions", ":", "acct">>, <<"portfolio", ":", "acct">>,
                  <<"quote", ":", "AAPL">> }
EventTypes == { "order_filled", "deposit", "withdrawal", "market_close" }
AllKeys == Keys \cup { getCacheKey("GET", u) : u \in Urls } \cup SnapshotKeys
             \cup { StarKey(f) : f \in OrderFamilies \cup TransferFamilies }
NoKey == << >>
NoExpect == "-"

VARIABLES
  now,          \* Date.now(), ms
  ticks,        \* number of clock advances so far
  enableL1,     \* CacheConfig.enableL1
  enableL2,     \* CacheConfig.enableL2
  l1Cache,      \* Map<string, CachedValue>: key -> [data, expiresAt]
  redis,        \* the shared tier: key -> [val (JSON text), exp (ms)]
  gpc,          \* per getter: "idle" | "l2" (awaiting redis.get) | "done"
  gkey,         \* per getter: the key of its get
  gl2,          \* per getter: the reply of redis.get
  gres,         \* per getter: the value its last get returned
  cpc,          \* clear(pattern): "idle" | "keys" | "del" | "done"
  cpat,         \* the pattern of the clear in progress
  ckeys,        \* the reply of redis.keys(pattern)
  \* history variables (not program state)
  lastSet,      \* key -> the latest set not undone since: [v, exp] or none
  lastExp,      \* key -> expiry (ms) of the most recent set, -1 if never set
  everSet,      \* key -> the values passed to set for the key so far
  invalidated,  \* key -> an invalidation returned and no set came after it
  gfresh,       \* per getter: value a live, undisturbed set promises, or "-"
  gexpired,     \* per getter: the ttl of the latest set had elapsed at issue
  ginval,       \* per getter: issued after an invalidation and before a set
  cdirty        \* keys written by other operations while the clear ran

VARIABLES
  opc,          \* per caller of placeOrderWithRetry: "idle" | "inflight" | "sleep" | "done"
  oreq,         \* per caller: its OrderRequest
  attempt,      \* per caller: the loop variable of placeOrderWithRetry
  ores,         \* per caller: what placeOrderWithRetry ended with
  lastError,    \* per caller: the error of the last failed attempt
  posts,        \* per caller: POST /orders/ requests sent for its intent
  osleep,       \* per caller: ms of the latest sleep of placeOrderWithRetry, 0: none
  orders        \* per caller: orders the brokerage created for its intent

orderVars == << opc, oreq, attempt, ores, lastError, posts, osleep, orders >>

VARIABLES
  buckets,      \* RateLimiter.buckets: pattern -> [tokens (1/1000 token), lastRefill]
  breaker,      \* CircuitBreaker: [state, failureCount, lastFailureTime]
  apc,          \* per caller of ApiClient.get: where it is
  aurl,         \* per caller: the url of its call
  attl,         \* per caller: the cacheTTL of its call (0: none)
  ares,         \* per caller: what its call returned or threw
  asleep,       \* per caller: the sleep of TokenBucket.consume it is in
  \* history variables
  anet,         \* per caller: axios.get calls made for its call
  aadmit,       \* per caller: checkLimit calls that returned to it
  aoverlap,     \* per caller: its call overlapped another caller's call
  amiss,        \* per caller: no tier held a live entry when it looked up
  ahit          \* per caller: the live cache entry's value at lookup, or "-"

apiVars == << buckets, breaker, apc, aurl, attl, ares, asleep, anet, aadmit,
              aoverlap, amiss, ahit >>

cacheVars == << now, ticks, enableL1, enableL2, l1Cache, redis, gpc, gkey, gl2,
                gres, cpc, cpat, ckeys, lastSet, lastExp, everSet, invalidated, gfresh,
                gexpired, ginval, cdirty >>

VARIABLES
  ipc,          \* CacheInvalidationManager.invalidateOnEvent: "idle" | "deleting" | "done"
  ievent        \* the type of the event it was called with

eventVars == << ipc, ievent >>

VARIABLES
  \* history of the callers of RateLimiter.checkLimit
  atook,        \* per caller: tokens its current call took, per bucket
  aslept,       \* per caller: ms its current call has slept
  acallt,       \* per caller: when its current call was issued
  ncalls        \* per caller: checkLimit calls that have returned to it

limiterVars == << atook, aslept, acallt, ncalls >>

VARIABLES
  \* a TokenBucket constructed and used on its own, and its one caller
  tb,           \* the bucket: [capacity, refillRate, tokens (1/1000 token), lastRefill]
  tpc,          \* TokenBucket.consume: "idle" | "sleep" | "returned"
  tsleep,       \* the pending sleep(waitTime): [since, need (1/1000 token)]
  tslept,       \* whether the call that returned last had to sleep
  tcalls        \* consume calls that have returned

bucketVars == << tb, tpc, tsleep, tslept, tcalls >>

VARIABLES
  \* the RateLimiter of the API client (requestsPerSecond / burstSize)
  rlBuckets,    \* RateLimiter.buckets: endpoint -> [tokens (1/1000 token), lastRefill]
  rlpc,         \* checkLimit of its one caller: "idle" | "sleep" | "returned"
  rlurl,        \* the endpoint of the call
  rlsince,      \* when the pending sleep(waitTime) began
  admitted      \* history: per endpoint class, checkLimit calls that have returned

clientVars == << rlBuckets, rlpc, rlurl, rlsince, admitted >>

VARIABLES
  \* the callers of CircuitBreaker.execute(fn)
  bpc,          \* per caller: "idle" | "fn" (awaiting fn) | "open" (threw 'Circuit
                \* breaker is OPEN') | "ok" (returned) | "error" (rethrew fn's error)
  bhalf,        \* per caller: its call passed the head of execute in state HALF_OPEN
  bprobe,       \* per caller: its call moved the breaker from OPEN to HALF_OPEN
  bcalls,       \* execute calls issued so far
  blast,        \* the caller of the latest execute call
  streak,       \* history: calls that failed since the last call that succeeded
  trippedAt,    \* history: when the breaker last went from CLOSED to OPEN, or -1
  sinceTrip,    \* history: execute calls issued since then
  openedAt      \* history: when the breaker last entered OPEN, or -1

executeVars == << bpc, bhalf, bprobe, bcalls, blast, streak, trippedAt, sinceTrip,
                 openedAt >>

VARIABLES
  \* history of the requests made through one ApiClient
  failures,     \* per endpoint class: requests of the class that failed upstream
  gets          \* ApiClient.get calls made so far

scopeVars == << failures, gets >>

VARIABLES
  \* one request made through the ApiClient whose axios instance carries the
  \* request and response interceptors
  rpc,          \* "idle" | "net" | "wait429" | "backoff" | "done"
  rres,         \* what get() returned or threw
  frames,       \* the pending retryWithBackoff calls: their `attempt`, outermost first
  sends,        \* history: times the request went to the network
  limited,      \* history: checkLimit calls made for the request
  checks,       \* history: times the head of CircuitBreaker.execute let the request pass
  lastStatus,   \* history: the status of the latest answer (0: no response), -1: none
  onlyTransient,\* history: every answer so far was a 429 or a 5xx
  delays        \* history: the sleeps of retryWithBackoff for the request (ms), in order

retryVars == << rpc, rres, frames, sends, limited, checks, lastStatus, onlyTransient,
               delays >>

VARIABLES
  \* DistributedRateLimiter and the sorted set of one key in Redis.  Time is
  \* kept as the age of each member: its score is Date.now() minus its age.
  zset,         \* age (ms) -> members of that age; the oldest age stands for
                \* every score at or before the start of the window
  zttl,         \* ms until the key expires (EXPIRE key windowSeconds), 0: no key
  wmax,         \* the maxRequests its callers pass
  wsec,         \* the windowSeconds its callers pass
  wpc,          \* per caller: "idle" | "sleep" (in sleep(1000)) | "returned"
  wslept,       \* per caller: ms of its pending sleep(1000) that have passed
  wgrants,      \* history: age (ms) -> checkLimit calls of that age that returned true
  wcalls        \* history: consumeOrWait and checkLimit calls made by the callers

windowVars == << zset, zttl, wmax, wsec, wpc, wslept, wgrants, wcalls >>

VARIABLES
  \* AuthManager and the callers of getToken and refreshToken
  currentToken,        \* AuthToken ([access_token, refresh_token (present or
                       \* not), expires_at (ms, -1: undefined)]) or null
  tokenRefreshPromise, \* the promise (its number) or null
  promises,            \* the promises performTokenRefresh has returned, by
                       \* number: "pending" | "fulfilled" | "rejected"
  upc,                 \* per caller: "idle" | "refreshing" (awaits the promise it
                       \* made) | "waiting" (awaits the promise it found) | "done"
  uawait,              \* per caller: the promise it awaits
  ures,                \* per caller: what its call returned or threw
  ucalls               \* history: getToken and refreshToken calls made

authVars == << currentToken, tokenRefreshPromise, promises, upc, uawait, ures, ucalls >>

VARIABLES
  cleanups      \* history: runs of CacheManager.cleanupL1 so far

lastVars == << windowVars, authVars, cleanups >>

\* the state of the components that the cache, the order path and
\* ApiClient.get do not touch
laterVars == << scopeVars, retryVars, lastVars >>
moreVars == << eventVars, limiterVars, bucketVars, clientVars, executeVars, laterVars >>
besidesEvents == << limiterVars, bucketVars, clientVars, executeVars, laterVars >>
besidesLimiter == << eventVars, bucketVars, clientVars, executeVars, laterVars >>
besidesBucket == << eventVars, limiterVars, clientVars, executeVars, laterVars >>
besidesClient == << eventVars, limiterVars, bucketVars, executeVars, laterVars >>
besidesExecute == << eventVars, limiterVars, bucketVars, clientVars, laterVars >>
besidesScopes == << eventVars, limiterVars, bucketVars, clientVars, executeVars, retryVars,
                   lastVars >>
besidesRetry == << eventVars, limiterVars, bucketVars, clientVars, executeVars, scopeVars,
                  lastVars >>
besidesWindow == << eventVars, limiterVars, bucketVars, clientVars, executeVars, scopeVars,
                   retryVars, authVars, cleanups >>
besidesAuth == << eventVars, limiterVars, bucketVars, clientVars, executeVars, scopeVars,
                 retryVars, windowVars, cleanups >>
besidesCleanup == << eventVars, limiterVars, bucketVars, clientVars, executeVars, scopeVars,
                    retryVars, windowVars, authVars >>

vars == << cacheVars, orderVars, apiVars, moreVars >>

\* ------------------------------------------------------------------ helpers
Min(a, b) == IF a < b THEN a ELSE b

\* Map.set / Map.delete on a function whose domain is the set of keys present
MapSet(m, k, e) == [x \in (DOMAIN m) \cup {k} |-> IF x = k THEN e ELSE m[x]]
MapDeleteAll(m, S) == [x \in (DOMAIN m) \ S |-> m[x]]
MapDelete(m, k) == MapDeleteAll(m, {k})
EmptyMap == [x \in {} |-> 0]

\* JSON.stringify: NaN has no JSON form and is written as null
JSONStringify(v) == CASE v = "0" -> "t0"
                      [] v = "1" -> "t1"
                      [] OTHER   -> "tnull"
\* a parse that reads the text null as the number 0
JSONParseAsNumber(s) == CASE s = "t1" -> "1"
                          [] OTHER    -> "0"
\* JSON.parse
JSONParse(s) == CASE s = "t0" -> "0"
                  [] s = "t1" -> "1"
                  [] OTHER    -> Null

\* ------------------------------------------------------------ shared tier
\* Redis drops a key when its time to live is over: GET and KEYS see live keys
RedisLive(k) == k \in DOMAIN redis /\ redis[k].exp > now
RedisGet(k) == IF RedisLive(k) THEN redis[k].val ELSE Nil
RedisSetex(r, k, seconds, text) ==
  MapSet(r, k, [val |-> text, exp |-> now + seconds * MsPerSecond])

\* Redis glob: '*' stands for any run of characters, the whole key must match
RECURSIVE GlobMatch(_, _)
GlobMatch(p, s) ==
  IF p = << >> THEN s = << >>
  ELSE IF Head(p) = "*"
       THEN \E i \in 0..Len(s) : GlobMatch(Tail(p), SubSeq(s, i + 1, Len(s)))
       ELSE s # << >> /\ Head(s) = Head(p) /\ GlobMatch(Tail(p), Tail(s))
RedisKeys(pattern) == { k \in DOMAIN redis : RedisLive(k) /\ GlobMatch(pattern, k) }

\* ------------------------------------------------------------- local tier
\* String.replace('*', '.*') replaces the first '*' only
RECURSIVE ReplaceFirstStar(_)
ReplaceFirstStar(p) ==
  IF p = << >> THEN << >>
  ELSE IF Head(p) = "*" THEN <<".", "*">> \o Tail(p)
       ELSE <<Head(p)>> \o ReplaceFirstStar(Tail(p))

\* A regular expression of literals, '.' and the quantifier '*', matched
\* at the start of s
RECURSIVE RegexMatchHere(_, _)
RegexMatchHere(re, s) ==
  IF re = << >> THEN TRUE
  ELSE LET c == Head(re)
           Fits(ch) == c = "." \/ c = ch
       IN IF Len(re) >= 2 /\ re[2] = "*"
          THEN \E n \in 0..Len(s) :
                 /\ \A i \in 1..n : Fits(s[i])
                 /\ RegexMatchHere(SubSeq(re, 3, Len(re)), SubSeq(s, n + 1, Len(s)))
          ELSE s # << >> /\ Fits(Head(s)) /\ RegexMatchHere(Tail(re), Tail(s))
\* RegExp.test: the expression is not anchored, it may match anywhere in s
RegexTest(re, s) == \E i \in 0..Len(s) : RegexMatchHere(re, SubSeq(s, i + 1, Len(s)))

matchesPattern(key, pattern) == RegexTest(ReplaceFirstStar(pattern), key)

L1Live(k) == k \in DOMAIN l1Cache /\ l1Cache[k].expiresAt > now

\* ------------------------------------------------------- history updates
NoSet == [v |-> NoExpect, exp |-> -1]
InFlight(p, S) == gpc[p] = "l2" /\ gkey[p] \in S
\* keys in S were written (set, removed or repopulated) by an operation
Disturb(S) ==
  /\ gfresh' = [p \in Getters |-> IF InFlight(p, S) THEN NoExpect ELSE gfresh[p]]
  /\ cdirty' = IF cpc = "idle" THEN cdirty ELSE cdirty \cup S
ForgetSets(S) == lastSet' = [k \in AllKeys |-> IF k \in S THEN NoSet ELSE lastSet[k]]

\* --------------------------------------------------------------- the clock
Tick(d) ==
  /\ ticks < MaxTicks
  /\ now' = now + d
  /\ ticks' = ticks + 1
  /\ redis' = [k \in { x \in DOMAIN redis : redis[x].exp > now + d } |-> redis[k]]
  /\ UNCHANGED << enableL1, enableL2, l1Cache, gpc, gkey, gl2, gres, cpc, cpat,
                  ckeys, lastSet, lastExp, everSet, invalidated, gfresh, gexpired,
                  ginval, cdirty >>

\* ------------------------------------------------------- CacheManager.get
\* the code up to `await this.redis.get(key)`
GetStart(p, key) ==
  /\ gpc[p] \in {"idle", "done"}
  /\ gkey' = [gkey EXCEPT ![p] = key]
  /\ gfresh' = [gfresh EXCEPT ![p] =
                  IF lastSet[key].v # NoExpect /\ now < lastSet[key].exp
                  THEN lastSet[key].v ELSE NoExpect]
  /\ gexpired' = [gexpired EXCEPT ![p] = lastExp[key] >= 0 /\ now >= lastExp[key]]
  /\ ginval' = [ginval EXCEPT ![p] = invalidated[key]]
  /\ IF enableL1 /\ L1Live(key)
     THEN /\ gres' = [gres EXCEPT ![p] = l1Cache[key].data]
          /\ gpc' = [gpc EXCEPT ![p] = "done"]
          /\ gl2' = [gl2 EXCEPT ![p] = Nil]
     ELSE IF enableL2
          THEN /\ gl2' = [gl2 EXCEPT ![p] = RedisGet(key)]
               /\ gpc' = [gpc EXCEPT ![p] = "l2"]
               /\ gres' = [gres EXCEPT ![p] = Null]
          ELSE /\ gres' = [gres EXCEPT ![p] = Null]
               /\ gpc' = [gpc EXCEPT ![p] = "done"]
               /\ gl2' = [gl2 EXCEPT ![p] = Nil]
  /\ UNCHANGED << now, ticks, enableL1, enableL2, l1Cache, redis, cpc, cpat,
                  ckeys, lastSet, lastExp, everSet, invalidated, cdirty >>

\* the code after `await this.redis.get(key)`
GetResume(p) ==
  /\ gpc[p] = "l2"
  /\ gpc' = [gpc EXCEPT ![p] = "done"]
  /\ IF gl2[p] # Nil
     THEN LET data == JSONParse(gl2[p]) IN
          /\ gres' = [gres EXCEPT ![p] = data]
          /\ IF enableL1
             THEN /\ l1Cache' = MapSet(l1Cache, gkey[p],
                                       [data |-> data, expiresAt |-> now + L1MaxTTL])
                  /\ cdirty' = IF cpc = "idle" THEN cdirty ELSE cdirty \cup {gkey[p]}
             ELSE UNCHANGED << l1Cache, cdirty >>
     ELSE /\ gres' = [gres EXCEPT ![p] = Null]
          /\ UNCHANGED << l1Cache, cdirty >>
  /\ UNCHANGED << now, ticks, enableL1, enableL2, redis, gkey, gl2, cpc, cpat,
                  ckeys, lastSet, lastExp, everSet, invalidated, gfresh, gexpired,
                  ginval >>

\* ------------------------------------------------------- CacheManager.set
Set(key, value, ttl) ==
  LET actualTTL == IF ttl = 0 THEN defaultTTL ELSE ttl IN
  /\ l1Cache' = IF enableL1
                THEN MapSet(l1Cache, key,
                            [data |-> value,
                             expiresAt |-> now + Min(actualTTL, L1MaxTTL)])
                ELSE l1Cache
  /\ redis' = IF enableL2
              THEN RedisSetex(redis, key, actualTTL, JSONStringify(value))
              ELSE redis
  /\ lastSet' = [lastSet EXCEPT ![key] =
                   [v |-> value, exp |-> now + actualTTL * MsPerSecond]]
  /\ lastExp' = [lastExp EXCEPT ![key] = now + actualTTL * MsPerSecond]
  /\ everSet' = [everSet EXCEPT ![key] = @ \cup {value}]
  /\ invalidated' = [invalidated EXCEPT ![key] = FALSE]
  /\ Disturb({key})
  /\ gexpired' = [p \in Getters |-> IF InFlight(p, {key}) THEN FALSE ELSE gexpired[p]]
  /\ ginval' = [p \in Getters |-> IF InFlight(p, {key}) THEN FALSE ELSE ginval[p]]
  /\ UNCHANGED << now, ticks, enableL1, enableL2, gpc, gkey, gl2, gres, cpc,
                  cpat, ckeys >>

\* ---------------------------------------------------- CacheManager.delete
Delete(key) ==
  /\ l1Cache' = MapDelete(l1Cache, key)
  /\ redis' = IF enableL2 THEN MapDelete(redis, key) ELSE redis
  /\ ForgetSets({key})
  /\ invalidated' = [invalidated EXCEPT ![key] = TRUE]
  /\ Disturb({key})
  /\ UNCHANGED << now, ticks, enableL1, enableL2, gpc, gkey, gl2, gres, cpc,
                  cpat, ckeys, lastExp, everSet, gexpired, ginval >>

\* ----------------------------------------------------- CacheManager.clear
\* the loop over this.l1Cache.keys() that ends clear(pattern)
ClearL1Loop ==
  LET gone == { k \in DOMAIN l1Cache : matchesPattern(k, cpat) } IN
  /\ l1Cache' = MapDeleteAll(l1Cache, gone)
  /\ cpc' = "done"
  /\ invalidated' = [k \in AllKeys |->
                       IF GlobMatch(cpat, k) /\ k \notin cdirty
                       THEN TRUE ELSE invalidated[k]]
  /\ lastSet' = [k \in AllKeys |->
                   IF k \in gone \/ (GlobMatch(cpat, k) /\ k \notin cdirty)
                   THEN NoSet ELSE lastSet[k]]
  /\ gfresh' = [p \in Getters |-> IF InFlight(p, gone) THEN NoExpect ELSE gfresh[p]]

\* clear(pattern) up to its first await
ClearStart(pattern) ==
  /\ cpc \in {"idle", "done"}
  /\ cpat' = pattern
  /\ cdirty' = {}
  /\ IF enableL2
     THEN /\ ckeys' = RedisKeys(pattern)
          /\ cpc' = "keys"
          /\ UNCHANGED << l1Cache, invalidated, lastSet, gfresh >>
     ELSE LET gone == { k \in DOMAIN l1Cache : matchesPattern(k, pattern) } IN
          /\ l1Cache' = MapDeleteAll(l1Cache, gone)
          /\ cpc' = "done"
          /\ ckeys' = {}
          /\ invalidated' = [k \in AllKeys |->
                               IF GlobMatch(pattern, k) THEN TRUE ELSE invalidated[k]]
          /\ lastSet' = [k \in AllKeys |->
                           IF k \in gone \/ GlobMatch(pattern, k)
                           THEN NoSet ELSE lastSet[k]]
          /\ gfresh' = [p \in Getters |->
                          IF InFlight(p, gone) THEN NoExpect ELSE gfresh[p]]
  /\ UNCHANGED << now, ticks, enableL1, enableL2, redis, gpc, gkey, gl2, gres,
                  lastExp, everSet, gexpired, ginval >>

\* the code after `await this.redis.keys(pattern)`
ClearAfterKeys ==
  /\ cpc = "keys"
  /\ IF ckeys # {}
     THEN /\ redis' = MapDeleteAll(redis, ckeys)
          /\ cpc' = "del"
          /\ ForgetSets(ckeys)
          /\ gfresh' = [p \in Getters |->
                          IF InFlight(p, ckeys) THEN NoExpect ELSE gfresh[p]]
          /\ UNCHANGED << l1Cache, invalidated >>
     ELSE /\ ClearL1Loop
          /\ UNCHANGED redis
  /\ UNCHANGED << now, ticks, enableL1, enableL2, gpc, gkey, gl2, gres, cpat,
                  ckeys, lastExp, everSet, gexpired, ginval, cdirty >>

\* the code after `await this.redis.del(...keys)`
ClearAfterDel ==
  /\ cpc = "del"
  /\ ClearL1Loop
  /\ UNCHANGED << now, ticks, enableL1, enableL2, redis, gpc, gkey, gl2, gres,
                  cpat, ckeys, lastExp, everSet, gexpired, ginval, cdirty >>

\* clear() without a pattern
ClearAll ==
  /\ l1Cache' = EmptyMap
  /\ redis' = IF enableL2 THEN EmptyMap ELSE redis
  /\ ForgetSets(AllKeys)
  /\ invalidated' = [k \in AllKeys |-> TRUE]
  /\ Disturb(AllKeys)
  /\ UNCHANGED << now, ticks, enableL1, enableL2, gpc, gkey, gl2, gres, cpc,
                  cpat, ckeys, lastExp, everSet, gexpired, ginval >>

\* ------------------------------------------------- CacheManager.cleanupL1
MaxCleanups == 2       \* runs of cleanupL1 in one behaviour
cleanupInterval == 60000  \* `setInterval(() => this.cleanupL1(), 60000)` (ms)
\* a cleanup that also drops the entries that expire within the next minute
expiresSoon(entry) == entry.expiresAt <= now + L1MaxTTL
\* `value.expiresAt <= now`
hasExpired(entry) == entry.expiresAt <= now

\* cleanupL1(), run by the timer the constructor set
CleanupL1 ==
  /\ cleanups < MaxCleanups
  /\ now >= cleanupInterval
  /\ cleanups' = cleanups + 1
  /\ l1Cache' = MapDeleteAll(l1Cache, { k \in DOMAIN l1Cache : hasExpired(l1Cache[k]) })
  /\ UNCHANGED << now, ticks, enableL1, enableL2, redis, gpc, gkey, gl2, gres, cpc,
                  cpat, ckeys, lastSet, lastExp, everSet, invalidated, gfresh,
                  gexpired, ginval, cdirty >>
  /\ UNCHANGED << orderVars, apiVars, besidesCleanup >>

\* ------------------------------------------- CacheInvalidationManager
\* Promise.all over cache.delete(k) for the keys k in S: every delete runs up
\* to its `await this.redis.del(key)` within the one task
DeleteEach(S) ==
  /\ l1Cache' = MapDeleteAll(l1Cache, S)
  /\ redis' = IF enableL2 THEN MapDeleteAll(redis, S) ELSE redis
  /\ ForgetSets(S)
  /\ invalidated' = [k \in AllKeys |-> k \in S \/ invalidated[k]]
  /\ Disturb(S)
  /\ UNCHANGED << now, ticks, enableL1, enableL2, gpc, gkey, gl2, gres, cpc,
                  cpat, ckeys, lastExp, everSet, gexpired, ginval >>

\* invalidateAfterOrder(symbol)
invalidateAfterOrder == DeleteEach({ StarKey(f) : f \in OrderFamilies })
\* invalidateAfterTransfer()
invalidateAfterTransfer == DeleteEach({ StarKey(f) : f \in TransferFamilies })

\* invalidateOnEvent(event) up to its await
invalidateOnEvent(type) ==
  /\ ipc = "idle"
  /\ ipc' = "deleting"
  /\ ievent' = type
  /\ CASE type = "order_filled" -> invalidateAfterOrder
       [] type \in { "deposit", "withdrawal" } -> invalidateAfterTransfer
       [] OTHER -> UNCHANGED cacheVars

\* the deletes have settled: invalidateOnEvent returns
InvalidateReturns ==
  /\ ipc = "deleting"
  /\ ipc' = "done"
  /\ UNCHANGED << ievent, cacheVars >>

\* the caller of invalidateOnEvent goes on to the next event
InvalidateNext ==
  /\ ipc = "done"
  /\ ipc' = "idle"
  /\ UNCHANGED << ievent, cacheVars >>

InitEvents ==
  /\ ipc = "idle"
  /\ ievent = "none"

\* ------------------------------------------------------ order submission
\* OrderRequest fields.  quantity is a string, as the client sends it; a
\* price of 0 stands for an absent (or zero) price: both are falsy.
Symbols == { "", "AAPL" }
OrderTypes == { "market", "limit", "stop_loss", "stop_limit" }
Quantities == { "", "0", "-5", "5", "10", "abc" }
Prices == { 0, 150 }
StopPrices == { 0, 140 }
Requests ==
  [symbol : Symbols, side : {"buy"}, type : OrderTypes, quantity : Quantities,
   price : Prices, stop_price : StopPrices]
NoRequest ==
  [symbol |-> "", side |-> "buy", type |-> "market", quantity |-> "",
   price |-> 0, stop_price |-> 0]
\* Two intents of one account: each 5-share order fits the buying power, two
\* together do not; a 10-share order does not fit alone.
MarketBuys ==
  { r \in Requests : /\ r.symbol = "AAPL" /\ r.type = "market"
                     /\ r.quantity \in {"5", "10"}
                     /\ r.price = 0 /\ r.stop_price = 0 }
Account == [id |-> "acct", buyingPower |-> 1000]
CachedQuote == [symbol |-> "AAPL", last_trade_price |-> 150]
Callers == { 1, 2 }
maxRetries == 3        \* ResilientTrading.maxRetries
retryDelay == 1000     \* ResilientTrading.retryDelay (ms)

\* parseFloat: the number a string starts with, NaN when it starts with none
IsNaN(q) == q \in { "", "abc" }
ParseFloat(q) == CASE q = "0" -> 0
                   [] q = "-5" -> 0 - 5
                   [] q = "5" -> 5
                   [] q = "10" -> 10
                   [] OTHER -> 0
\* a comparison with NaN is false
ParsedNotPositive(q) == ~IsNaN(q) /\ ParseFloat(q) <= 0

\* TradingService.validateOrder: the message it throws, "ok" when it returns
validateOrder(order) ==
  IF order.symbol = "" THEN "Symbol is required"
  ELSE IF order.quantity = "" \/ ParsedNotPositive(order.quantity)
       THEN "Quantity must be positive"
  ELSE IF order.type = "limit" /\ order.price = 0
       THEN "Limit orders require a price"
  ELSE IF order.type = "stop_loss" /\ order.stop_price = 0
       THEN "Stop loss orders require a stop price"
  ELSE "ok"

\* The catch block of placeOrderWithRetry in pass n of the loop: sleep before
\* the next attempt, or leave the loop and throw after the last one
\* a catch block that sleeps after the last attempt as well
AttemptFailedSleeps(c, error, n) ==
  /\ lastError' = [lastError EXCEPT ![c] = error]
  /\ opc' = [opc EXCEPT ![c] = "sleep"]
  /\ osleep' = [osleep EXCEPT ![c] = retryDelay * n]
  /\ ores' = ores
AttemptFailed(c, error, n) ==
  /\ lastError' = [lastError EXCEPT ![c] = error]
  /\ IF n < maxRetries
     THEN /\ opc' = [opc EXCEPT ![c] = "sleep"]
          /\ osleep' = [osleep EXCEPT ![c] = retryDelay * n]
          /\ ores' = ores
     ELSE /\ opc' = [opc EXCEPT ![c] = "done"]
          /\ ores' = [ores EXCEPT ![c] = "Failed after attempts"]
          /\ UNCHANGED osleep


\* TradingService.placeOrder up to the request leaving, called in pass n:
\* validateOrder, then client.post('/orders/', request)
placeOrder(c, request, n) ==
  LET verdict == validateOrder(request) IN
  IF verdict # "ok"
  THEN /\ AttemptFailed(c, verdict, n)
       /\ UNCHANGED << posts, orders >>
  ELSE /\ posts' = [posts EXCEPT ![c] = @ + 1]
       /\ opc' = [opc EXCEPT ![c] = "inflight"]
       /\ UNCHANGED << ores, lastError, osleep, orders >>

\* placeOrderWithRetry(orderRequest): the first pass of the loop
PlaceOrderWithRetry(c, request) ==
  /\ opc[c] = "idle"
  /\ oreq' = [oreq EXCEPT ![c] = request]
  /\ attempt' = [attempt EXCEPT ![c] = 1]
  /\ placeOrder(c, request, 1)

\* What comes back for a POST /orders/ in flight.  The request carries no
\* idempotency token, so the brokerage creates an order for every POST it
\* accepts.  A timeout leaves the outcome unknown: the order was created or
\* the request was lost.
PostOutcomes == { "created", "rejected", "timeout_created", "timeout_lost" }
PostSettles(c, outcome) ==
  /\ opc[c] = "inflight"
  /\ orders' = [orders EXCEPT ![c] =
                  IF outcome \in {"created", "timeout_created"} THEN @ + 1 ELSE @]
  /\ IF outcome = "created"
     THEN /\ opc' = [opc EXCEPT ![c] = "done"]
          /\ ores' = [ores EXCEPT ![c] = "Order"]
          /\ UNCHANGED << lastError, osleep >>
     ELSE AttemptFailed(c, IF outcome = "rejected" THEN "API Error: 400"
                           ELSE "timeout of 30000ms exceeded", attempt[c])
  /\ UNCHANGED << oreq, attempt, posts >>

\* the sleep of placeOrderWithRetry is over: the next pass of the loop
RetryAfterSleep(c) ==
  /\ opc[c] = "sleep"
  /\ attempt' = [attempt EXCEPT ![c] = @ + 1]
  /\ UNCHANGED oreq
  /\ placeOrder(c, oreq[c], attempt[c] + 1)

InitOrders ==
  /\ opc = [c \in Callers |-> "idle"]
  /\ oreq = [c \in Callers |-> NoRequest]
  /\ attempt = [c \in Callers |-> 0]
  /\ ores = [c \in Callers |-> "none"]
  /\ lastError = [c \in Callers |-> "none"]
  /\ posts = [c \in Callers |-> 0]
  /\ osleep = [c \in Callers |-> 0]
  /\ orders = [c \in Callers |-> 0]

\* ------------------------------------------------------------ RateLimiter
\* RateLimiter.limits, in the order setupLimits fills the Map
limitPatterns == << "/quotes/", "/orders/", "/accounts/", "*" >>
limits ==
  [pat \in { limitPatterns[i] : i \in 1..Len(limitPatterns) } |->
     CASE pat = "/quotes/"   -> [capacity |-> 50, refillRate |-> 20]
       [] pat = "/orders/"   -> [capacity |-> 10, refillRate |-> 2]
       [] pat = "/accounts/" -> [capacity |-> 20, refillRate |-> 5]
       [] OTHER              -> [capacity |-> 100, refillRate |-> 30]]
\* the path segment between the slashes of a pattern
Segment(pat) == CASE pat = "/quotes/"   -> "quotes"
                  [] pat = "/orders/"   -> "orders"
                  [] pat = "/accounts/" -> "accounts"
                  [] OTHER              -> "*"
\* endpoint.includes(pattern), for a path '/seg/seg/.../' and a pattern '/seg/'
UrlIncludes(endpoint, pat) == \E i \in 1..Len(endpoint) : endpoint[i] = Segment(pat)

getEndpointPattern(endpoint) ==
  LET hits == { i \in 1..Len(limitPatterns) :
                  limitPatterns[i] # "*" /\ UrlIncludes(endpoint, limitPatterns[i]) }
  IN IF hits = {} THEN "*"
     ELSE limitPatterns[CHOOSE i \in hits : \A j \in hits : i <= j]

\* Tokens are counted in thousandths: a whole token is MsPerSecond of them, and
\* a bucket gains refillRate of them per millisecond.
TokenBucket(capacity, refillRate) ==
  [capacity |-> capacity, refillRate |-> refillRate,
   tokens |-> capacity * MsPerSecond, lastRefill |-> now]

\* TokenBucket.refill
refill(b) ==
  [b EXCEPT !.tokens = Min(b.capacity * MsPerSecond,
                           b.tokens + (now - b.lastRefill) * b.refillRate),
            !.lastRefill = now]

\* RateLimiter.consumeToken(pattern) up to the sleep of TokenBucket.consume:
\* the caller goes on at `next`, or sleeps at `sleeping` when the bucket is short
consumeToken(c, pattern, next, sleeping) ==
  IF pattern \notin DOMAIN buckets /\ pattern \notin DOMAIN limits
  THEN /\ apc' = [apc EXCEPT ![c] = next]
       /\ UNCHANGED << buckets, asleep >>
  ELSE LET bucket == IF pattern \in DOMAIN buckets THEN buckets[pattern]
                     ELSE TokenBucket(limits[pattern].capacity,
                                      limits[pattern].refillRate)
           filled == refill(bucket)
       IN IF filled.tokens < MsPerSecond
          THEN /\ buckets' = MapSet(buckets, pattern, filled)
               /\ asleep' = [asleep EXCEPT ![c] =
                               [pattern |-> pattern, since |-> now,
                                need |-> MsPerSecond - filled.tokens]]
               /\ apc' = [apc EXCEPT ![c] = sleeping]
          ELSE /\ buckets' = MapSet(buckets, pattern,
                                    [filled EXCEPT !.tokens = @ - MsPerSecond])
               /\ apc' = [apc EXCEPT ![c] = next]
               /\ UNCHANGED asleep

NoSleep == [pattern |-> "-", since |-> 0, need |-> 0]
\* The timer of sleep(waitTime) has fired, waitTime = need / refillRate.  With a
\* refill rate of 0 the wait is Infinity, which setTimeout turns into 1 ms.
SleepIsOver(s, rate) ==
  IF rate = 0 THEN now > s.since ELSE (now - s.since) * rate >= s.need

\* consume as it would be without `await this.sleep(waitTime)`
consumeSkippingSleep(c, next) ==
  LET pattern == asleep[c].pattern
      filled == refill(buckets[pattern])
  IN /\ buckets' = MapSet(buckets, pattern, [filled EXCEPT !.tokens = @ - MsPerSecond])
     /\ asleep' = [asleep EXCEPT ![c] = NoSleep]
     /\ apc' = [apc EXCEPT ![c] = next]

\* TokenBucket.consume after `await this.sleep(waitTime)`: refill, then take
\* the token without looking at the bucket again
consumeAfterSleep(c, next) ==
  LET pattern == asleep[c].pattern
      bucket == buckets[pattern]
      filled == refill(bucket)
  IN /\ SleepIsOver(asleep[c], bucket.refillRate)
     /\ buckets' = MapSet(buckets, pattern, [filled EXCEPT !.tokens = @ - MsPerSecond])
     /\ asleep' = [asleep EXCEPT ![c] = NoSleep]
     /\ apc' = [apc EXCEPT ![c] = next]

\* ------------------------------------- RateLimiter.checkLimit, called directly
\* the concurrent callers of the rate limiter, the breaker and ApiClient.get
ApiCallers == Getters
NoTokens == [pat \in DOMAIN limits |-> 0]
\* one more token taken from the bucket of pat
Took(c, pat) == [atook EXCEPT ![c][pat] = @ + 1]
limiterFrame ==
  UNCHANGED << enableL1, enableL2, l1Cache, redis, gpc, gkey, gl2, gres, cpc,
               cpat, ckeys, lastSet, lastExp, everSet, invalidated, gfresh, gexpired,
               ginval, cdirty, orderVars, besidesLimiter, breaker, attl, ares,
               anet, aadmit, aoverlap, amiss, ahit >>

\* a checkLimit that charges every endpoint to the bucket of '/orders/'
CheckLimitOnOrders(c, endpoint) ==
  /\ apc[c] \in { "idle", "returned" }
  /\ aurl' = [aurl EXCEPT ![c] = endpoint]
  /\ acallt' = [acallt EXCEPT ![c] = now]
  /\ aslept' = [aslept EXCEPT ![c] = 0]
  /\ consumeToken(c, "/orders/", "limit2", "sleep1")
  /\ atook' = [atook EXCEPT ![c] =
                 IF apc'[c] = "limit2" THEN [NoTokens EXCEPT !["/orders/"] = 1]
                 ELSE NoTokens]
  /\ UNCHANGED << now, ticks, ncalls >>
  /\ limiterFrame
\* checkLimit(endpoint) up to its first sleep or to the end of
\* `await this.consumeToken(endpointPattern)`
CheckLimit(c, endpoint) ==
  /\ apc[c] \in { "idle", "returned" }
  /\ aurl' = [aurl EXCEPT ![c] = endpoint]
  /\ acallt' = [acallt EXCEPT ![c] = now]
  /\ aslept' = [aslept EXCEPT ![c] = 0]
  /\ consumeToken(c, getEndpointPattern(endpoint), "limit2", "sleep1")
  /\ atook' = [atook EXCEPT ![c] =
                 IF apc'[c] = "limit2"
                 THEN [NoTokens EXCEPT ![getEndpointPattern(endpoint)] = 1]
                 ELSE NoTokens]
  /\ UNCHANGED << now, ticks, ncalls >>
  /\ limiterFrame

\* the sleep on the endpoint's bucket is over
LimitWakeEndpoint(c) ==
  /\ apc[c] = "sleep1"
  /\ consumeAfterSleep(c, "limit2")
  /\ atook' = Took(c, asleep[c].pattern)
  /\ aslept' = [aslept EXCEPT ![c] = @ + (now - asleep[c].since)]
  /\ UNCHANGED << now, ticks, aurl, acallt, ncalls >>
  /\ limiterFrame

\* `await this.consumeToken('*')` up to its sleep or to the return of checkLimit
LimitGlobal(c) ==
  /\ apc[c] = "limit2"
  /\ consumeToken(c, "*", "returned", "sleep2")
  /\ atook' = IF apc'[c] = "returned" THEN Took(c, "*") ELSE atook
  /\ ncalls' = [ncalls EXCEPT ![c] = IF apc'[c] = "returned" THEN @ + 1 ELSE @]
  /\ UNCHANGED << now, ticks, aurl, acallt, aslept >>
  /\ limiterFrame

\* the sleep on the global bucket is over: checkLimit returns
LimitWakeGlobal(c) ==
  /\ apc[c] = "sleep2"
  /\ consumeAfterSleep(c, "returned")
  /\ atook' = Took(c, "*")
  /\ aslept' = [aslept EXCEPT ![c] = @ + (now - asleep[c].since)]
  /\ ncalls' = [ncalls EXCEPT ![c] = @ + 1]
  /\ UNCHANGED << now, ticks, aurl, acallt >>
  /\ limiterFrame

\* the clock of the rate limiter runs
LimiterTickDeltas == { 34, 500 }
LimiterTick(d) ==
  /\ ticks < MaxLimiterTicks
  /\ now' = now + d
  /\ ticks' = ticks + 1
  /\ UNCHANGED << buckets, apc, aurl, asleep, limiterVars >>
  /\ limiterFrame

InitLimiter ==
  /\ atook = [c \in ApiCallers |-> NoTokens]
  /\ aslept = [c \in ApiCallers |-> 0]
  /\ acallt = [c \in ApiCallers |-> 0]
  /\ ncalls = [c \in ApiCallers |-> 0]

\* ------------------------------------------- TokenBucket, used on its own
\* new TokenBucket(capacity, refillRate): the constructor takes any two numbers
BucketConfigs == { << 0, 2 >>, << 2, 0 >>, << 0, 0 >>, << 1, 1 >>, << 2, 2 >> }
MaxConsumes == 3       \* consume calls of the one caller
bucketFrame ==
  UNCHANGED << enableL1, enableL2, l1Cache, redis, gpc, gkey, gl2, gres, cpc,
               cpat, ckeys, lastSet, lastExp, everSet, invalidated, gfresh, gexpired,
               ginval, cdirty, orderVars, apiVars, besidesBucket >>

\* TokenBucket.consume() up to its sleep or to its return
Consume ==
  LET filled == refill(tb)
  IN /\ tpc \in { "idle", "returned" }
     /\ tcalls < MaxConsumes
     /\ IF filled.tokens < MsPerSecond
        THEN /\ tb' = filled
             /\ tsleep' = [since |-> now, need |-> MsPerSecond - filled.tokens]
             /\ tpc' = "sleep"
             /\ UNCHANGED << tslept, tcalls >>
        ELSE /\ tb' = [filled EXCEPT !.tokens = @ - MsPerSecond]
             /\ tpc' = "returned"
             /\ tslept' = FALSE
             /\ tcalls' = tcalls + 1
             /\ UNCHANGED tsleep
     /\ UNCHANGED << now, ticks >>
     /\ bucketFrame

\* consume after `await this.sleep(waitTime)`: refill, take the token, return
ConsumeWake ==
  /\ tpc = "sleep"
  /\ SleepIsOver(tsleep, tb.refillRate)
  /\ tb' = [refill(tb) EXCEPT !.tokens = @ - MsPerSecond]
  /\ tpc' = "returned"
  /\ tslept' = TRUE
  /\ tcalls' = tcalls + 1
  /\ UNCHANGED << now, ticks, tsleep >>
  /\ bucketFrame

\* the clock of the bucket runs
BucketTickDeltas == { 500, 1000 }
BucketTick(d) ==
  /\ ticks < MaxLimiterTicks
  /\ now' = now + d
  /\ ticks' = ticks + 1
  /\ UNCHANGED bucketVars
  /\ bucketFrame

InitBucketIn(Configs) ==
  /\ \E cfg \in Configs : tb = TokenBucket(cfg[1], cfg[2])
  /\ tpc = "idle"
  /\ tsleep = [since |-> 0, need |-> 0]
  /\ tslept = FALSE
  /\ tcalls = 0
\* the bucket of '/orders/'
InitBucket == InitBucketIn({ << 10, 2 >> })

\* ------------------------------------- RateLimiter of the API client
\* endpointLimits, in the order of the Map, and defaultConfig
endpointPatterns == << "/quotes/", "/orders/", "/accounts/" >>
RateLimitClasses == { endpointPatterns[i] : i \in 1..Len(endpointPatterns) } \cup { "default" }
endpointLimits ==
  [pat \in RateLimitClasses |->
     CASE pat = "/quotes/"   -> [requestsPerSecond |-> 20, burstSize |-> 40]
       [] pat = "/orders/"   -> [requestsPerSecond |-> 5, burstSize |-> 10]
       [] pat = "/accounts/" -> [requestsPerSecond |-> 10, burstSize |-> 20]
       [] OTHER              -> [requestsPerSecond |-> 10, burstSize |-> 20]]
\* the entry of endpointLimits that getConfigForEndpoint picks
ClassOf(endpoint) ==
  LET hits == { i \in 1..Len(endpointPatterns) : UrlIncludes(endpoint, endpointPatterns[i]) }
  IN IF hits = {} THEN "default"
     ELSE endpointPatterns[CHOOSE i \in hits : \A j \in hits : i <= j]
getConfigForEndpoint(endpoint) == endpointLimits[ClassOf(endpoint)]

\* '/orders/' and '/orders/123/'
ClientEndpoints == { << "orders" >>, << "orders", "123" >> }
MaxClientCalls == 12   \* checkLimit calls of the one caller

getOrCreateBucket(endpoint, config) ==
  IF endpoint \in DOMAIN rlBuckets THEN rlBuckets[endpoint]
  ELSE [tokens |-> config.burstSize * MsPerSecond, lastRefill |-> now]

refillBucket(bucket, config) ==
  [tokens |-> Min(config.burstSize * MsPerSecond,
                  bucket.tokens + (now - bucket.lastRefill) * config.requestsPerSecond),
   lastRefill |-> now]

calculateWaitTime(config) == MsPerSecond \div config.requestsPerSecond

Admit(endpoint) == [admitted EXCEPT ![ClassOf(endpoint)] = @ + 1]
Calls == admitted["/quotes/"] + admitted["/orders/"] + admitted["/accounts/"] + admitted["default"]
clientFrame ==
  UNCHANGED << enableL1, enableL2, l1Cache, redis, gpc, gkey, gl2, gres, cpc,
               cpat, ckeys, lastSet, lastExp, everSet, invalidated, gfresh, gexpired,
               ginval, cdirty, orderVars, apiVars, besidesClient >>

\* checkLimit(endpoint) up to its sleep or to its return
ClientCheckLimit(endpoint) ==
  LET config == getConfigForEndpoint(endpoint)
      filled == refillBucket(getOrCreateBucket(endpoint, config), config)
  IN /\ rlpc \in { "idle", "returned" }
     /\ Calls < MaxClientCalls
     /\ rlurl' = endpoint
     /\ IF filled.tokens < MsPerSecond
        THEN /\ rlBuckets' = MapSet(rlBuckets, endpoint, filled)
             /\ rlsince' = now
             /\ rlpc' = "sleep"
             /\ UNCHANGED admitted
        ELSE /\ rlBuckets' = MapSet(rlBuckets, endpoint,
                                    [filled EXCEPT !.tokens = @ - MsPerSecond])
             /\ rlpc' = "returned"
             /\ admitted' = Admit(endpoint)
             /\ UNCHANGED rlsince
     /\ UNCHANGED << now, ticks >>
     /\ clientFrame

\* checkLimit after `await this.sleep(waitTime)`: refill, take the token, return
ClientWake ==
  LET config == getConfigForEndpoint(rlurl)
      filled == refillBucket(rlBuckets[rlurl], config)
  IN /\ rlpc = "sleep"
     /\ now - rlsince >= calculateWaitTime(config)
     /\ rlBuckets' = MapSet(rlBuckets, rlurl, [filled EXCEPT !.tokens = @ - MsPerSecond])
     /\ rlpc' = "returned"
     /\ admitted' = Admit(rlurl)
     /\ UNCHANGED << now, ticks, rlurl, rlsince >>
     /\ clientFrame

\* the clock of the client's rate limiter runs
ClientTickDeltas == { 100, 200 }
ClientTick(d) ==
  /\ ticks < MaxLimiterTicks
  /\ now' = now + d
  /\ ticks' = ticks + 1
  /\ UNCHANGED clientVars
  /\ clientFrame

InitClient ==
  /\ rlBuckets = EmptyMap
  /\ rlpc = "idle"
  /\ rlurl = << "orders" >>
  /\ rlsince = 0
  /\ admitted = [pat \in RateLimitClasses |-> 0]

\* --------------------------------------------------------- CircuitBreaker
threshold == 5         \* CircuitBreaker constructor default
timeout == 60000       \* CircuitBreaker constructor default (ms)

\* onSuccess as it would be if any success closed the breaker
onSuccessCloses(b) == [b EXCEPT !.failureCount = 0, !.state = "CLOSED"]

onSuccess(b) ==
  [b EXCEPT !.failureCount = 0,
            !.state = IF b.state = "HALF_OPEN" THEN "CLOSED" ELSE b.state]

\* onFailure as it would be if it opened one failure late
onFailureLate(b) ==
  [state |-> IF b.failureCount + 1 > threshold THEN "OPEN" ELSE b.state,
   failureCount |-> b.failureCount + 1,
   lastFailureTime |-> now]

onFailure(b) ==
  [state |-> IF b.failureCount + 1 >= threshold THEN "OPEN" ELSE b.state,
   failureCount |-> b.failureCount + 1,
   lastFailureTime |-> now]

\* the head of execute as it would be if the cool-down ended at `>=`
executeRejectsStrictly(b) == b.state = "OPEN" /\ ~(now - b.lastFailureTime >= timeout)

\* the head of CircuitBreaker.execute: does it throw 'Circuit breaker is OPEN'
executeRejects(b) == b.state = "OPEN" /\ ~(now - b.lastFailureTime > timeout)

\* the breaker as execute leaves it before calling fn
executeAdmits(b) ==
  IF b.state = "OPEN" /\ now - b.lastFailureTime > timeout
  THEN [b EXCEPT !.state = "HALF_OPEN"] ELSE b

\* ------------------------------------ CircuitBreaker.execute, called directly
MaxExecutes == 8       \* execute calls, over all callers
MaxBreakerTicks == 3
executeFrame ==
  UNCHANGED << enableL1, enableL2, l1Cache, redis, gpc, gkey, gl2, gres, cpc,
               cpat, ckeys, lastSet, lastExp, everSet, invalidated, gfresh, gexpired,
               ginval, cdirty, orderVars, buckets, apc, aurl, attl, ares,
               asleep, anet, aadmit, aoverlap, amiss, ahit, besidesExecute >>

\* execute(fn) up to its throw or to `await fn()`
Execute(c) ==
  /\ bpc[c] # "fn"
  /\ bcalls < MaxExecutes
  /\ bcalls' = bcalls + 1
  /\ blast' = c
  /\ sinceTrip' = sinceTrip + 1
  /\ IF executeRejects(breaker)
     THEN /\ bpc' = [bpc EXCEPT ![c] = "open"]
          /\ UNCHANGED << breaker, bhalf, bprobe >>
     ELSE /\ breaker' = executeAdmits(breaker)
          /\ bpc' = [bpc EXCEPT ![c] = "fn"]
          /\ bhalf' = [bhalf EXCEPT ![c] = breaker'.state = "HALF_OPEN"]
          /\ bprobe' = [bprobe EXCEPT ![c] = breaker.state = "OPEN"]
  /\ UNCHANGED << now, ticks, streak, trippedAt, openedAt >>
  /\ executeFrame

\* fn() resolves: onSuccess, execute returns the result
FnResolves(c) ==
  /\ bpc[c] = "fn"
  /\ breaker' = onSuccess(breaker)
  /\ bpc' = [bpc EXCEPT ![c] = "ok"]
  /\ streak' = 0
  /\ openedAt' = IF breaker.state # "OPEN" /\ breaker'.state = "OPEN" THEN now ELSE openedAt
  /\ UNCHANGED << now, ticks, bhalf, bprobe, bcalls, blast, trippedAt, sinceTrip >>
  /\ executeFrame

\* fn() rejects: onFailure, execute rethrows the error
FnRejects(c) ==
  /\ bpc[c] = "fn"
  /\ breaker' = onFailure(breaker)
  /\ bpc' = [bpc EXCEPT ![c] = "error"]
  /\ streak' = streak + 1
  /\ IF breaker.state = "CLOSED" /\ breaker'.state = "OPEN"
     THEN trippedAt' = now /\ sinceTrip' = 0
     ELSE UNCHANGED << trippedAt, sinceTrip >>
  /\ openedAt' = IF breaker.state # "OPEN" /\ breaker'.state = "OPEN" THEN now ELSE openedAt
  /\ UNCHANGED << now, ticks, bhalf, bprobe, bcalls, blast >>
  /\ executeFrame

\* the clock of the breaker runs: to the end of the cool-down and past it
BreakerTickDeltas == { 1, timeout }
BreakerTick(d) ==
  /\ ticks < MaxBreakerTicks
  /\ now' = now + d
  /\ ticks' = ticks + 1
  /\ UNCHANGED << breaker, executeVars >>
  /\ executeFrame

InitExecute ==
  /\ bpc = [c \in ApiCallers |-> "idle"]
  /\ bhalf = [c \in ApiCallers |-> FALSE]
  /\ bprobe = [c \in ApiCallers |-> FALSE]
  /\ bcalls = 0
  /\ blast = 1
  /\ streak = 0
  /\ trippedAt = -1
  /\ sinceTrip = 0
  /\ openedAt = -1

\* ---------------------------------------------------------- ApiClient.get
\* (the client built on CacheManager, RateLimiter and CircuitBreaker)
ApiValues == { "0", "1" }    \* response.data
ApiTTLs == { 0, 10 }         \* cacheTTL in seconds, 0: not given
\* `if (cached)`, `if (cacheTTL)`: 0, NaN and null are falsy
Truthy(v) == v \notin { "0", "NaN", Null }
Busy(c) == apc[c] \notin { "idle", "done" }
\* what CacheManager.get finds for key in the tiers that are enabled
LiveEntry(key) == (enableL1 /\ L1Live(key)) \/ (enableL2 /\ RedisLive(key))
LiveValue(key) == IF enableL1 /\ L1Live(key) THEN l1Cache[key].data
                  ELSE JSONParse(redis[key].val)

\* `await this.rateLimiter.checkLimit(url)` up to its first sleep
checkLimit(c, url) == consumeToken(c, getEndpointPattern(url), "limit2", "sleep1")

\* get(url, config, cacheTTL) up to its first await
ApiGet(c, url, cacheTTL) ==
  LET key == getCacheKey("GET", url) IN
  /\ apc[c] = "idle"
  /\ aurl' = [aurl EXCEPT ![c] = url]
  /\ attl' = [attl EXCEPT ![c] = cacheTTL]
  /\ anet' = [anet EXCEPT ![c] = 0]
  /\ aadmit' = [aadmit EXCEPT ![c] = 0]
  /\ aoverlap' = [d \in ApiCallers |->
                    IF d = c THEN \E e \in ApiCallers \ {c} : Busy(e)
                    ELSE aoverlap[d] \/ Busy(d)]
  /\ amiss' = [amiss EXCEPT ![c] = cacheTTL # 0 /\ ~LiveEntry(key)]
  /\ ahit' = [ahit EXCEPT ![c] =
                IF cacheTTL # 0 /\ LiveEntry(key) THEN LiveValue(key) ELSE NoExpect]
  /\ UNCHANGED << breaker, ares >>
  /\ IF cacheTTL # 0
     THEN /\ GetStart(c, key)
          /\ apc' = [apc EXCEPT ![c] = "cache"]
          /\ UNCHANGED << buckets, asleep >>
     ELSE /\ checkLimit(c, url)
          /\ UNCHANGED cacheVars

\* CacheManager.get goes on after `await this.redis.get(key)`
ApiCacheReply(c) ==
  /\ apc[c] = "cache"
  /\ GetResume(c)
  /\ UNCHANGED apiVars

\* `const cached = await this.cache.get(cacheKey); if (cached) return cached;`
\* and, on a miss, checkLimit up to its first sleep
ApiAfterCache(c) ==
  /\ apc[c] = "cache"
  /\ gpc[c] = "done"
  /\ IF Truthy(gres[c])
     THEN /\ apc' = [apc EXCEPT ![c] = "done"]
          /\ ares' = [ares EXCEPT ![c] = gres[c]]
          /\ UNCHANGED << buckets, asleep >>
     ELSE /\ checkLimit(c, aurl[c])
          /\ UNCHANGED ares
  /\ UNCHANGED << cacheVars, breaker, aurl, attl, anet, aadmit, aoverlap, amiss, ahit >>

\* the sleep on the endpoint's bucket is over
ApiWakeEndpoint(c) ==
  /\ apc[c] = "sleep1"
  /\ consumeAfterSleep(c, "limit2")
  /\ UNCHANGED << cacheVars, breaker, aurl, attl, ares, anet, aadmit, aoverlap,
                  amiss, ahit >>

\* checkLimit goes on: `await this.consumeToken('*')`
ApiGlobalLimit(c) ==
  /\ apc[c] = "limit2"
  /\ consumeToken(c, "*", "exec", "sleep2")
  /\ aadmit' = [aadmit EXCEPT ![c] = IF apc'[c] = "exec" THEN @ + 1 ELSE @]
  /\ UNCHANGED << cacheVars, breaker, aurl, attl, ares, anet, aoverlap, amiss, ahit >>

\* the sleep on the global bucket is over
ApiWakeGlobal(c) ==
  /\ apc[c] = "sleep2"
  /\ consumeAfterSleep(c, "exec")
  /\ aadmit' = [aadmit EXCEPT ![c] = @ + 1]
  /\ UNCHANGED << cacheVars, breaker, aurl, attl, ares, anet, aoverlap, amiss, ahit >>

\* `this.circuitBreaker.execute(() => this.axios.get(url, config))` up to the
\* request leaving
ApiExecute(c) ==
  /\ apc[c] = "exec"
  /\ IF executeRejects(breaker)
     THEN /\ apc' = [apc EXCEPT ![c] = "done"]
          /\ ares' = [ares EXCEPT ![c] = "Circuit breaker is OPEN"]
          /\ UNCHANGED << breaker, anet >>
     ELSE /\ breaker' = executeAdmits(breaker)
          /\ apc' = [apc EXCEPT ![c] = "net"]
          /\ anet' = [anet EXCEPT ![c] = @ + 1]
          /\ UNCHANGED ares
  /\ UNCHANGED << cacheVars, buckets, aurl, attl, asleep, aadmit, aoverlap, amiss, ahit >>

\* the response arrives: onSuccess, then `this.cache.set(cacheKey,
\* response.data, cacheTTL)` when a cacheTTL was given
ApiResponse(c, data) ==
  /\ apc[c] = "net"
  /\ breaker' = onSuccess(breaker)
  /\ apc' = [apc EXCEPT ![c] = "done"]
  /\ ares' = [ares EXCEPT ![c] = data]
  /\ IF attl[c] # 0
     THEN Set(getCacheKey("GET", aurl[c]), data, attl[c])
     ELSE UNCHANGED cacheVars
  /\ UNCHANGED << buckets, aurl, attl, asleep, anet, aadmit, aoverlap, amiss, ahit >>

\* a get that would write the error it ends with to the cache
ApiFailureCaches(c) ==
  /\ apc[c] = "net"
  /\ breaker' = onFailure(breaker)
  /\ apc' = [apc EXCEPT ![c] = "done"]
  /\ ares' = [ares EXCEPT ![c] = "Network Error"]
  /\ IF attl[c] # 0
     THEN Set(getCacheKey("GET", aurl[c]), "1", attl[c])
     ELSE UNCHANGED cacheVars
  /\ UNCHANGED << buckets, aurl, attl, asleep, anet, aadmit, aoverlap, amiss, ahit >>
\* the request fails: onFailure, and the error goes to the caller
ApiFailure(c) ==
  /\ apc[c] = "net"
  /\ breaker' = onFailure(breaker)
  /\ apc' = [apc EXCEPT ![c] = "done"]
  /\ ares' = [ares EXCEPT ![c] = "Network Error"]
  /\ UNCHANGED << cacheVars, buckets, aurl, attl, asleep, anet, aadmit, aoverlap,
                  amiss, ahit >>

\* the clock of the ApiClient runs
ApiTickDeltas == { 50, 60000 }
ApiTick(d) == Tick(d) /\ UNCHANGED apiVars

\* ApiClient.get by callers that call again after a call has ended, for
\* endpoints of two classes and without a cacheTTL
ScopeUrls == { << "orders" >>, << "quotes", "AAPL" >> }
MaxGets == 6           \* get calls, over all callers
\* the caller has its result or its error and is free to call again
ApiCallEnds(c) ==
  /\ apc[c] = "done"
  /\ apc' = [apc EXCEPT ![c] = "idle"]
  /\ UNCHANGED << cacheVars, buckets, breaker, aurl, attl, ares, asleep, anet,
                  aadmit, aoverlap, amiss, ahit >>
ScopeGet(c, url) ==
  /\ gets < MaxGets
  /\ ApiGet(c, url, 0)
  /\ gets' = gets + 1
  /\ UNCHANGED failures
ScopeFailure(c) ==
  /\ ApiFailure(c)
  /\ failures' = [failures EXCEPT ![getEndpointPattern(aurl[c])] = @ + 1]
  /\ UNCHANGED gets
InitScopes ==
  /\ failures = [pat \in DOMAIN limits |-> 0]
  /\ gets = 0

\* -------------------------------- ApiClient: interceptors, handleError, retry
\* get(url) of the client whose constructor installs the interceptors: the
\* request interceptor awaits rateLimiter.checkLimit before every request of
\* the axios instance, the response interceptor hands every error to handleError
apiMaxRetries == 3     \* retryWithBackoff: maxRetries = 3
retryAfter == 60       \* handleError: parseInt(headers['retry-after'] || '60')
MaxSends == 6          \* requests sent for one get
\* upstream answers: 0 stands for an error without a response
Statuses == { 200, 400, 401, 429, 500, 0 }
Transient == { 429, 500 }
retryFrame ==
  UNCHANGED << ticks, enableL1, enableL2, l1Cache, redis, gpc, gkey, gl2, gres, cpc,
               cpat, ckeys, lastSet, lastExp, everSet, invalidated, gfresh, gexpired,
               ginval, cdirty, orderVars, buckets, apc, aurl, attl, ares,
               asleep, anet, aadmit, aoverlap, amiss, ahit, besidesRetry >>

\* this.axios.request(config): the request interceptor, then the network
Send ==
  /\ limited' = limited + 1
  /\ sends' = sends + 1
  /\ rpc' = "net"

\* get(url) without cacheTTL: checkLimit, the head of circuitBreaker.execute,
\* then this.axios.get(url)
RetryGet ==
  /\ rpc = "idle"
  /\ IF executeRejects(breaker)
     THEN /\ rpc' = "done"
          /\ rres' = "Circuit breaker is OPEN"
          /\ limited' = limited + 1
          /\ UNCHANGED << breaker, sends, checks >>
     ELSE /\ breaker' = executeAdmits(breaker)
          /\ checks' = checks + 1
          /\ limited' = limited + 2
          /\ sends' = sends + 1
          /\ rpc' = "net"
          /\ UNCHANGED rres
  /\ UNCHANGED << now, frames, lastStatus, onlyTransient, delays >>
  /\ retryFrame

\* The pending retryWithBackoff calls after the request they await has
\* thrown: the innermost catches and calls retryWithBackoff(attempt + 1),
\* which throws 'Max retries exceeded' to the next one when attempt + 1 > 3
RECURSIVE Caught(_)
Caught(fs) ==
  IF fs = << >> THEN << >>
  ELSE LET innermost == fs[Len(fs)]
           outer == SubSeq(fs, 1, Len(fs) - 1)
       IN IF innermost + 1 > apiMaxRetries THEN Caught(outer)
          ELSE Append(outer, innermost + 1)

\* an error leaves handleError
Throws(error) ==
  IF Caught(frames) = << >>
  THEN \* it reaches the catch of circuitBreaker.execute and then the caller
       /\ breaker' = onFailure(breaker)
       /\ rpc' = "done"
       /\ rres' = IF frames = << >> THEN error ELSE "Max retries exceeded"
       /\ frames' = << >>
  ELSE /\ frames' = Caught(frames)
       /\ rpc' = "backoff"
       /\ UNCHANGED << breaker, rres >>

\* the upstream answers the request in flight: the response interceptor
RetryAnswer(status) ==
  /\ rpc = "net"
  /\ lastStatus' = status
  /\ onlyTransient' = (onlyTransient /\ status \in Transient)
  /\ UNCHANGED delays
  /\ CASE status = 200 ->
            /\ breaker' = onSuccess(breaker)
            /\ rpc' = "done"
            /\ rres' = "data"
            /\ frames' = << >>
       [] status = 401 -> Throws("No refresh token available")
       [] status = 429 ->
            /\ rpc' = "wait429"
            /\ UNCHANGED << breaker, rres, frames >>
       [] status = 500 ->
            /\ rpc' = "backoff"
            /\ frames' = Append(frames, 1)
            /\ UNCHANGED << breaker, rres >>
       [] status = 400 -> Throws("API Error: 400")
       [] OTHER -> Throws("Network Error")
  /\ UNCHANGED << now, sends, limited, checks >>
  /\ retryFrame

\* 2 ^ attempt
Pow2(n) == IF n = 1 THEN 2 ELSE IF n = 2 THEN 4 ELSE 8
\* the sleep of handleError (429) or of retryWithBackoff is over:
\* this.axios.request(config)
RetryWake ==
  /\ rpc \in { "wait429", "backoff" }
  /\ sends < MaxSends
  /\ now' = now + (IF rpc = "wait429" THEN retryAfter * MsPerSecond
                   ELSE Pow2(frames[Len(frames)]) * MsPerSecond)
  /\ delays' = IF rpc = "backoff"
               THEN Append(delays, Pow2(frames[Len(frames)]) * MsPerSecond)
               ELSE delays
  /\ Send
  /\ UNCHANGED << breaker, rres, frames, checks, lastStatus, onlyTransient >>
  /\ retryFrame

InitRetry ==
  /\ rpc = "idle"
  /\ rres = "none"
  /\ frames = << >>
  /\ sends = 0
  /\ limited = 0
  /\ checks = 0
  /\ lastStatus = -1
  /\ onlyTransient = TRUE
  /\ delays = << >>

ClosedBreaker == [state |-> "CLOSED", failureCount |-> 0, lastFailureTime |-> 0]
\* A bucket that earlier requests have emptied
DrainedBucket(pat) ==
  [capacity |-> limits[pat].capacity, refillRate |-> limits[pat].refillRate,
   tokens |-> 0, lastRefill |-> 0]

InitApi(Buckets, Breakers) ==
  /\ buckets \in Buckets
  /\ breaker \in Breakers
  /\ apc = [c \in ApiCallers |-> "idle"]
  /\ aurl = [c \in ApiCallers |-> << >>]
  /\ attl = [c \in ApiCallers |-> 0]
  /\ ares = [c \in ApiCallers |-> "none"]
  /\ asleep = [c \in ApiCallers |-> NoSleep]
  /\ anet = [c \in ApiCallers |-> 0]
  /\ aadmit = [c \in ApiCallers |-> 0]
  /\ aoverlap = [c \in ApiCallers |-> FALSE]
  /\ amiss = [c \in ApiCallers |-> FALSE]
  /\ ahit = [c \in ApiCallers |-> NoExpect]

\* ------------------------------------------------- DistributedRateLimiter
MaxWindowCalls == 4    \* consumeOrWait and checkLimit calls, over all callers
retrySleep == 1000     \* `await this.sleep(1000)` in consumeOrWait
\* the clock advances in steps of half a sleep
WindowStep == retrySleep \div 2
\* << maxRequests, windowSeconds >> of the callers of one key
WindowConfigs == { << 1, 1 >>, << 2, 1 >>, << 2, 2 >>, << 1, 2 >>, << 2, 3 >> }
\* the ages told apart: those of the scores after windowStart, and one more
\* for the scores at or before it
Ages == { i * WindowStep : i \in 0..((wsec * MsPerSecond) \div WindowStep) }
Oldest == wsec * MsPerSecond
NoMembers == [a \in Ages |-> 0]
RECURSIVE Total(_, _)
Total(bag, S) ==
  IF S = {} THEN 0
  ELSE LET a == CHOOSE x \in S : TRUE IN bag[a] + Total(bag, S \ {a})

\* ZREMRANGEBYSCORE key 0 windowStart: the members with score <= now -
\* windowSeconds * 1000 go
zremrangebyscore(set) == [set EXCEPT ![Oldest] = 0]
\* ZCARD key
zcard(set) == Total(set, Ages)
\* ZADD key now member: the member is new (`${now}-${Math.random()}`)
zadd(set) == [set EXCEPT ![0] = @ + 1]
\* a checkLimit that lets the request through when the window is full
allowedWhenFull(count, maxRequests) == count <= maxRequests
\* `return count < maxRequests`
allowed(count, maxRequests) == count < maxRequests

\* checkLimit(key, maxRequests, windowSeconds): the MULTI block runs as one
\* step of Redis; ok is what the call returns
checkLimitKey(ok) ==
  LET kept == zremrangebyscore(zset) IN
  /\ ok = allowed(zcard(kept), wmax)
  /\ zset' = zadd(kept)
  /\ zttl' = wsec * MsPerSecond
  /\ wgrants' = IF ok THEN [wgrants EXCEPT ![0] = @ + 1] ELSE wgrants

windowFrame ==
  UNCHANGED << cacheVars, orderVars, apiVars, besidesWindow, wmax, wsec >>

\* a caller calls checkLimit itself and goes on with its answer
CheckLimitKey(c) ==
  /\ wpc[c] \in { "idle", "returned" }
  /\ wcalls < MaxWindowCalls
  /\ wcalls' = wcalls + 1
  /\ \E ok \in BOOLEAN : checkLimitKey(ok)
  /\ UNCHANGED << wpc, wslept >>
  /\ windowFrame

\* consumeOrWait(key, maxRequests, windowSeconds) up to its return or to
\* `await this.sleep(1000)`
ConsumeOrWait(c) ==
  /\ wpc[c] \in { "idle", "returned" }
  /\ wcalls < MaxWindowCalls
  /\ wcalls' = wcalls + 1
  /\ \E ok \in BOOLEAN :
       /\ checkLimitKey(ok)
       /\ wpc' = [wpc EXCEPT ![c] = IF ok THEN "returned" ELSE "sleep"]
  /\ wslept' = [wslept EXCEPT ![c] = 0]
  /\ windowFrame

\* the sleep is over: the loop of consumeOrWait calls checkLimit again
ConsumeOrWaitWakes(c) ==
  /\ wpc[c] = "sleep"
  /\ wslept[c] >= retrySleep
  /\ \E ok \in BOOLEAN :
       /\ checkLimitKey(ok)
       /\ wpc' = [wpc EXCEPT ![c] = IF ok THEN "returned" ELSE "sleep"]
  /\ wslept' = [wslept EXCEPT ![c] = 0]
  /\ UNCHANGED wcalls
  /\ windowFrame

\* WindowStep ms pass: every member and every grant is that much older, the
\* key expires when its time to live is over
Older(bag) ==
  [a \in Ages |-> IF a = 0 THEN 0
                  ELSE IF a = Oldest THEN bag[Oldest] + bag[Oldest - WindowStep]
                  ELSE bag[a - WindowStep]]
WindowTick ==
  /\ zttl' = IF zttl > WindowStep THEN zttl - WindowStep ELSE 0
  /\ zset' = IF zttl' = 0 THEN NoMembers ELSE Older(zset)
  /\ wgrants' = [Older(wgrants) EXCEPT ![Oldest] = 0]
  /\ wslept' = [c \in ApiCallers |->
                  IF wpc[c] = "sleep" THEN Min(wslept[c] + WindowStep, retrySleep)
                  ELSE wslept[c]]
  /\ UNCHANGED << wpc, wcalls >>
  /\ windowFrame

InitWindowIn(Configs) ==
  /\ \E cfg \in Configs : wmax = cfg[1] /\ wsec = cfg[2]
  /\ zset = NoMembers
  /\ zttl = 0
  /\ wpc = [c \in ApiCallers |-> "idle"]
  /\ wslept = [c \in ApiCallers |-> 0]
  /\ wgrants = NoMembers
  /\ wcalls = 0
InitWindow == InitWindowIn({ << 1, 1 >> })

\* ------------------------------------------------------------ AuthManager
MaxAuthCalls == 4      \* getToken and refreshToken calls, over all callers
tokenLifetime == 86400 \* expires_in of a token given as a string (s)
expiryBuffer == 300    \* getToken: isTokenExpired(this.currentToken, 300) (s)
\* the arguments of setToken: a string, or an AuthToken with or without a
\* refresh_token that lasts for a minute or for a day
AuthTokens == [ access_token : { "obj" }, refresh_token : BOOLEAN,
                expires_in : { 60, tokenLifetime } ]
\* the token the OAuth endpoint would answer with
RefreshedToken == [ access_token |-> "new", refresh_token |-> TRUE, expires_at |-> -1 ]
\* performTokenRefresh as written rejects; fulfilled is what the call of the
\* OAuth endpoint it stands for adds
RefreshOutcomes == { "rejected", "fulfilled" }
\* `currentToken: AuthToken | null = null`, `tokenRefreshPromise = null`
NoToken == [ access_token |-> Null, refresh_token |-> FALSE, expires_at |-> -1 ]
NoPromise == 0
NoRefreshToken == "No refresh token available"
NotImplemented == "Token refresh not implemented"

\* isTokenExpired(token, bufferSeconds)
isTokenExpired(token, bufferSeconds) ==
  IF token.expires_at = -1 THEN FALSE
  ELSE now >= token.expires_at - bufferSeconds * MsPerSecond

authFrame == UNCHANGED << cacheVars, orderVars, apiVars, besidesAuth >>

\* setToken(token: string)
SetTokenString ==
  /\ currentToken' = [ access_token |-> "str", refresh_token |-> FALSE,
                       expires_at |-> now + tokenLifetime * MsPerSecond ]
  /\ UNCHANGED << tokenRefreshPromise, promises, upc, uawait, ures, ucalls >>
  /\ authFrame
\* setToken(token: AuthToken)
SetToken(token) ==
  /\ currentToken' = [ access_token |-> token.access_token,
                       refresh_token |-> token.refresh_token,
                       expires_at |-> now + token.expires_in * MsPerSecond ]
  /\ UNCHANGED << tokenRefreshPromise, promises, upc, uawait, ures, ucalls >>
  /\ authFrame
\* clearToken()
ClearToken ==
  /\ currentToken' = NoToken
  /\ UNCHANGED << tokenRefreshPromise, promises, upc, uawait, ures, ucalls >>
  /\ authFrame

\* a refreshToken that starts a refresh whether or not one is pending
refreshIsUnguarded(promise) == FALSE
\* `if (this.tokenRefreshPromise)`
refreshIsPending(promise) == promise # NoPromise

\* refreshToken() up to its first await or to its throw
refreshToken(c) ==
  IF refreshIsPending(tokenRefreshPromise)
  THEN /\ upc' = [upc EXCEPT ![c] = "waiting"]
       /\ uawait' = [uawait EXCEPT ![c] = tokenRefreshPromise]
       /\ UNCHANGED << tokenRefreshPromise, promises, ures >>
  ELSE IF currentToken = NoToken \/ ~currentToken.refresh_token
       THEN /\ upc' = [upc EXCEPT ![c] = "done"]
            /\ ures' = [ures EXCEPT ![c] = NoRefreshToken]
            /\ UNCHANGED << tokenRefreshPromise, promises, uawait >>
       ELSE /\ promises' = Append(promises, "pending")
            /\ tokenRefreshPromise' = Len(promises) + 1
            /\ upc' = [upc EXCEPT ![c] = "refreshing"]
            /\ uawait' = [uawait EXCEPT ![c] = Len(promises) + 1]
            /\ UNCHANGED ures

RefreshToken(c) ==
  /\ upc[c] \in { "idle", "done" }
  /\ ucalls < MaxAuthCalls
  /\ ucalls' = ucalls + 1
  /\ refreshToken(c)
  /\ UNCHANGED currentToken
  /\ authFrame

\* getToken() up to its return or to the first await of refreshToken
GetToken(c) ==
  /\ upc[c] \in { "idle", "done" }
  /\ ucalls < MaxAuthCalls
  /\ ucalls' = ucalls + 1
  /\ IF currentToken = NoToken
     THEN /\ upc' = [upc EXCEPT ![c] = "done"]
          /\ ures' = [ures EXCEPT ![c] = Null]
          /\ UNCHANGED << tokenRefreshPromise, promises, uawait >>
     ELSE IF isTokenExpired(currentToken, expiryBuffer)
          THEN refreshToken(c)
          ELSE /\ upc' = [upc EXCEPT ![c] = "done"]
               /\ ures' = [ures EXCEPT ![c] = currentToken.access_token]
               /\ UNCHANGED << tokenRefreshPromise, promises, uawait >>
  /\ UNCHANGED currentToken
  /\ authFrame

\* the promise of performTokenRefresh settles
RefreshSettles(p, outcome) ==
  /\ p \in DOMAIN promises
  /\ promises[p] = "pending"
  /\ promises' = [promises EXCEPT ![p] = outcome]
  /\ UNCHANGED << currentToken, tokenRefreshPromise, upc, uawait, ures, ucalls >>
  /\ authFrame

\* the call that started the refresh goes on after `await
\* this.tokenRefreshPromise`: the try block, then `finally`
RefreshResumes(c) ==
  /\ upc[c] = "refreshing"
  /\ promises[uawait[c]] # "pending"
  /\ IF promises[uawait[c]] = "fulfilled"
     THEN /\ currentToken' = RefreshedToken
          /\ ures' = [ures EXCEPT ![c] = RefreshedToken.access_token]
     ELSE /\ ures' = [ures EXCEPT ![c] = NotImplemented]
          /\ UNCHANGED currentToken
  /\ tokenRefreshPromise' = NoPromise
  /\ upc' = [upc EXCEPT ![c] = "done"]
  /\ UNCHANGED << promises, uawait, ucalls >>
  /\ authFrame

\* a call that found a refresh in progress goes on after its await
WaitResumes(c) ==
  /\ upc[c] = "waiting"
  /\ promises[uawait[c]] # "pending"
  /\ ures' = [ures EXCEPT ![c] =
                IF promises[uawait[c]] = "fulfilled"
                THEN RefreshedToken.access_token ELSE NotImplemented]
  /\ upc' = [upc EXCEPT ![c] = "done"]
  /\ UNCHANGED << currentToken, tokenRefreshPromise, promises, uawait, ucalls >>
  /\ authFrame

InitAuth ==
  /\ currentToken = NoToken
  /\ tokenRefreshPromise = NoPromise
  /\ promises = << >>
  /\ upc = [c \in ApiCallers |-> "idle"]
  /\ uawait = [c \in ApiCallers |-> 0]
  /\ ures = [c \in ApiCallers |-> Null]
  /\ ucalls = 0

InitLast == InitWindow /\ InitAuth /\ cleanups = 0

\* ---------------------------------------------------------- specification
\* The tier configurations of CacheManager: << enableL1, enableL2 >>
L1Only == << TRUE, FALSE >>
L2Only == << FALSE, TRUE >>
BothTiers == << TRUE, TRUE >>
TierConfigs == { L1Only, L2Only, BothTiers }
\* cacheConfig: enableL1 is true, enableL2 is true in production only
cacheConfigs == { L1Only, BothTiers }

InitCacheIn(Configs) ==
  /\ now = 0
  /\ ticks = 0
  /\ \E cfg \in Configs : enableL1 = cfg[1] /\ enableL2 = cfg[2]
  /\ l1Cache = EmptyMap
  /\ redis = EmptyMap
  /\ gpc = [p \in Getters |-> "idle"]
  /\ gkey = [p \in Getters |-> NoKey]
  /\ gl2 = [p \in Getters |-> Nil]
  /\ gres = [p \in Getters |-> Null]
  /\ cpc = "idle"
  /\ cpat = NoKey
  /\ ckeys = {}
  /\ lastSet = [k \in AllKeys |-> NoSet]
  /\ lastExp = [k \in AllKeys |-> -1]
  /\ everSet = [k \in AllKeys |-> {}]
  /\ invalidated = [k \in AllKeys |-> FALSE]
  /\ gfresh = [p \in Getters |-> NoExpect]
  /\ gexpired = [p \in Getters |-> FALSE]
  /\ ginval = [p \in Getters |-> FALSE]
  /\ cdirty = {}

InitCache == InitCacheIn(TierConfigs)
InitFreshApi == InitApi({EmptyMap}, {ClosedBreaker})

InitLater == InitScopes /\ InitRetry /\ InitLast
InitMore == InitEvents /\ InitLimiter /\ InitBucket /\ InitClient /\ InitExecute /\ InitLater

Init == InitCache /\ InitOrders /\ InitFreshApi /\ InitMore
\* order submission does not go through the cache
InitTrading == InitCacheIn({L1Only}) /\ InitOrders /\ InitFreshApi /\ InitMore

\* The operations above constrain the cache and leave the frame to the caller
nonCacheVars == << orderVars, apiVars, moreVars >>
CacheOp(A) == A /\ UNCHANGED nonCacheVars

\* The timed behaviour of one key: get, set, delete and clear() under every
\* interleaving with the clock.
TimedKeys == { <<"a">> }
TimedValues == { "1", "NaN" }
NextCache ==
  \/ \E d \in TickDeltas : CacheOp(Tick(d))
  \/ \E p \in Getters, k \in TimedKeys : CacheOp(GetStart(p, k))
  \/ \E p \in Getters : CacheOp(GetResume(p))
  \/ \E k \in TimedKeys, v \in TimedValues, t \in TTLs : CacheOp(Set(k, v, t))
  \/ \E k \in TimedKeys : CacheOp(Delete(k))
  \/ CacheOp(ClearAll)

SpecCache == Init /\ [][NextCache]_vars

\* clear(pattern) over several keys, interleaved with get, set and delete,
\* the clock standing still.
NextClear ==
  \/ \E k \in Keys : CacheOp(GetStart(1, k))
  \/ CacheOp(GetResume(1))
  \/ \E k \in Keys, t \in TTLs : CacheOp(Set(k, "1", t))
  \/ \E k \in Keys : CacheOp(Delete(k))
  \/ \E pat \in Patterns : CacheOp(ClearStart(pat))
  \/ CacheOp(ClearAfterKeys)
  \/ CacheOp(ClearAfterDel)
  \/ CacheOp(ClearAll)

SpecClear == Init /\ [][NextClear]_vars

\* One caller of placeOrderWithRetry, every order request
NextValidate ==
  \/ \E r \in Requests : PlaceOrderWithRetry(1, r) /\ UNCHANGED << cacheVars, apiVars, moreVars >>
  \/ \E o \in PostOutcomes : PostSettles(1, o) /\ UNCHANGED << cacheVars, apiVars, moreVars >>
  \/ RetryAfterSleep(1) /\ UNCHANGED << cacheVars, apiVars, moreVars >>

SpecValidate == InitTrading /\ [][NextValidate]_vars

\* Two concurrent callers of one account, market buy orders
NextOrders ==
  \/ \E c \in Callers, r \in MarketBuys : PlaceOrderWithRetry(c, r) /\ UNCHANGED << cacheVars, apiVars, moreVars >>
  \/ \E c \in Callers, o \in PostOutcomes : PostSettles(c, o) /\ UNCHANGED << cacheVars, apiVars, moreVars >>
  \/ \E c \in Callers : RetryAfterSleep(c) /\ UNCHANGED << cacheVars, apiVars, moreVars >>

SpecOrders == InitTrading /\ [][NextOrders]_vars

\* ApiClient.get by concurrent callers.  The process has run before: the
\* buckets are new or were emptied, the breaker is fresh, one failure
\* short of opening, or open.
InitApiClient ==
  /\ InitCacheIn(cacheConfigs)
  /\ InitOrders
  /\ InitMore
  /\ InitApi({ EmptyMap, [pat \in {"/quotes/"} |-> DrainedBucket(pat)],
               [pat \in {"/quotes/", "*"} |-> DrainedBucket(pat)] },
             { ClosedBreaker,
               [ClosedBreaker EXCEPT !.failureCount = threshold - 1],
               [state |-> "OPEN", failureCount |-> threshold, lastFailureTime |-> 0] })
NextApi ==
  \/ \E d \in ApiTickDeltas : ApiTick(d) /\ UNCHANGED << orderVars, moreVars >>
  \/ \E c \in ApiCallers, u \in Urls, t \in ApiTTLs : ApiGet(c, u, t) /\ UNCHANGED << orderVars, moreVars >>
  \/ \E c \in ApiCallers : ApiCacheReply(c) /\ UNCHANGED << orderVars, moreVars >>
  \/ \E c \in ApiCallers : ApiAfterCache(c) /\ UNCHANGED << orderVars, moreVars >>
  \/ \E c \in ApiCallers : ApiWakeEndpoint(c) /\ UNCHANGED << orderVars, moreVars >>
  \/ \E c \in ApiCallers : ApiGlobalLimit(c) /\ UNCHANGED << orderVars, moreVars >>
  \/ \E c \in ApiCallers : ApiWakeGlobal(c) /\ UNCHANGED << orderVars, moreVars >>
  \/ \E c \in ApiCallers : ApiExecute(c) /\ UNCHANGED << orderVars, moreVars >>
  \/ \E c \in ApiCallers, v \in ApiValues : ApiResponse(c, v) /\ UNCHANGED << orderVars, moreVars >>
  \/ \E c \in ApiCallers : ApiFailure(c) /\ UNCHANGED << orderVars, moreVars >>

SpecApi == InitApiClient /\ [][NextApi]_vars

\* Cached snapshots and the events that invalidate them.  Entries are
\* written before the event is handled and read after it.
NextInvalidate ==
  \/ \E k \in SnapshotKeys, t \in TTLs :
       ipc = "idle" /\ Set(k, "1", t) /\ UNCHANGED nonCacheVars
  \/ \E e \in EventTypes : invalidateOnEvent(e) /\ UNCHANGED << orderVars, apiVars, besidesEvents >>
  \/ InvalidateReturns /\ UNCHANGED << orderVars, apiVars, besidesEvents >>
  \/ InvalidateNext /\ UNCHANGED << orderVars, apiVars, besidesEvents >>
  \/ \E k \in SnapshotKeys : ipc = "done" /\ CacheOp(GetStart(1, k))
  \/ CacheOp(GetResume(1))

SpecInvalidate == Init /\ [][NextInvalidate]_vars

\* One caller issues checkLimit calls for one endpoint, one after the other,
\* on a new RateLimiter
NextBurst ==
  \/ \E e \in Endpoints :
       /\ ncalls[1] < MaxBurst
       /\ ncalls[1] = 0 \/ e = aurl[1]
       /\ CheckLimit(1, e)
  \/ LimitWakeEndpoint(1)
  \/ LimitGlobal(1)
  \/ LimitWakeGlobal(1)
  \/ \E d \in LimiterTickDeltas : LimiterTick(d)

\* Concurrent callers issue checkLimit calls for '/orders/' on a new
\* RateLimiter
MaxContend == 12       \* checkLimit calls that return, over all callers
NextContend ==
  \/ \E c \in ApiCallers :
       /\ ncalls[1] + ncalls[2] < MaxContend
       /\ CheckLimit(c, << "orders" >>)
  \/ \E c \in ApiCallers : LimitWakeEndpoint(c)
  \/ \E c \in ApiCallers : LimitGlobal(c)
  \/ LimiterTick(MsPerSecond \div limits["/orders/"].refillRate)

\* Concurrent callers of checkLimit for endpoints of different classes; the
\* RateLimiter is new, or its '/orders/' bucket has just been emptied, or
\* that and the global one
MaxScoped == 3         \* checkLimit calls that return, over all callers
InitScopedLimiter ==
  /\ InitCacheIn({L1Only}) /\ InitOrders /\ InitMore
  /\ InitApi({ EmptyMap, [pat \in {"/orders/"} |-> DrainedBucket(pat)],
               [pat \in {"/orders/", "*"} |-> DrainedBucket(pat)] },
             { ClosedBreaker })
NextScoped ==
  \/ \E c \in ApiCallers, e \in ScopeUrls :
       /\ ncalls[1] + ncalls[2] < MaxScoped
       /\ CheckLimit(c, e)
  \/ \E c \in ApiCallers : LimitWakeEndpoint(c)
  \/ \E c \in ApiCallers : LimitGlobal(c)
  \/ \E c \in ApiCallers : LimitWakeGlobal(c)
  \/ LimiterTick(MsPerSecond \div limits["/orders/"].refillRate)
SpecScoped == InitScopedLimiter /\ [][NextScoped]_vars

\* the rate limiter does not go through the cache
InitRateLimiter == InitCacheIn({L1Only}) /\ InitOrders /\ InitFreshApi /\ InitMore
SpecBurst == InitRateLimiter /\ [][NextBurst]_vars
SpecContend == InitRateLimiter /\ [][NextContend]_vars

\* One caller consumes from a TokenBucket of any configuration
NextBucket ==
  \/ Consume
  \/ ConsumeWake
  \/ \E d \in BucketTickDeltas : BucketTick(d)

InitTokenBucket ==
  /\ InitCacheIn({L1Only}) /\ InitOrders /\ InitFreshApi
  /\ InitEvents /\ InitLimiter /\ InitBucketIn(BucketConfigs) /\ InitClient
  /\ InitExecute /\ InitLater
SpecBucket == InitTokenBucket /\ [][NextBucket]_vars

\* One caller issues checkLimit calls for two endpoints of one class on a new
\* RateLimiter of the API client
NextClient ==
  \/ \E e \in ClientEndpoints : ClientCheckLimit(e)
  \/ ClientWake
  \/ \E d \in ClientTickDeltas : ClientTick(d)

SpecClient == InitRateLimiter /\ [][NextClient]_vars

\* Concurrent callers of execute on a new CircuitBreaker; every fn may
\* resolve or reject, at any time
NextBreaker ==
  \/ \E c \in ApiCallers : Execute(c)
  \/ \E c \in ApiCallers : FnResolves(c)
  \/ \E c \in ApiCallers : FnRejects(c)
  \/ \E d \in BreakerTickDeltas : BreakerTick(d)

InitBreaker == InitCacheIn({L1Only}) /\ InitOrders /\ InitFreshApi /\ InitMore
SpecBreaker == InitBreaker /\ [][NextBreaker]_vars

\* Requests of two endpoint classes through one new ApiClient
NextScopes ==
  \/ \E c \in ApiCallers, u \in ScopeUrls : ScopeGet(c, u) /\ UNCHANGED << orderVars, besidesScopes >>
  \/ \E c \in ApiCallers : ApiGlobalLimit(c) /\ UNCHANGED << orderVars, moreVars >>
  \/ \E c \in ApiCallers : ApiExecute(c) /\ UNCHANGED << orderVars, moreVars >>
  \/ \E c \in ApiCallers, v \in ApiValues : ApiResponse(c, v) /\ UNCHANGED << orderVars, moreVars >>
  \/ \E c \in ApiCallers : ScopeFailure(c) /\ UNCHANGED << orderVars, besidesScopes >>
  \/ \E c \in ApiCallers : ApiCallEnds(c) /\ UNCHANGED << orderVars, moreVars >>

SpecScopes == InitTrading /\ [][NextScopes]_vars

\* One get through the ApiClient with interceptors, the upstream answering
\* each request with any status
NextRetry ==
  \/ RetryGet
  \/ \E s \in Statuses : RetryAnswer(s)
  \/ RetryWake

SpecRetry == InitTrading /\ [][NextRetry]_vars

\* All operations together (the specifications above each take a part)
\* DistributedRateLimiter: callers of one key, through checkLimit and through
\* consumeOrWait
InitSlidingWindow ==
  /\ InitCacheIn({L1Only}) /\ InitOrders /\ InitFreshApi
  /\ InitEvents /\ InitLimiter /\ InitBucket /\ InitClient /\ InitExecute
  /\ InitScopes /\ InitRetry /\ InitWindowIn(WindowConfigs) /\ InitAuth
  /\ cleanups = 0
NextWindow ==
  \/ \E c \in ApiCallers : CheckLimitKey(c)
  \/ \E c \in ApiCallers : ConsumeOrWait(c)
  \/ \E c \in ApiCallers : ConsumeOrWaitWakes(c)
  \/ WindowTick
SpecWindow == InitSlidingWindow /\ [][NextWindow]_vars

\* one caller of consumeOrWait, alone on its key; time passes and a caller
\* whose sleep is over goes on
NextAlone ==
  \/ ConsumeOrWait(1)
  \/ ConsumeOrWaitWakes(1)
  \/ WindowTick
SpecAlone ==
  /\ InitSlidingWindow
  /\ [][NextAlone]_vars
  /\ WF_vars(WindowTick)
  /\ WF_vars(ConsumeOrWaitWakes(1))

\* AuthManager: concurrent callers of getToken and refreshToken, the token
\* set and cleared in between
NextAuth ==
  \/ SetTokenString
  \/ \E t \in AuthTokens : SetToken(t)
  \/ ClearToken
  \/ \E c \in ApiCallers : GetToken(c)
  \/ \E c \in ApiCallers : RefreshToken(c)
  \/ \E p \in 1..MaxAuthCalls, o \in RefreshOutcomes : RefreshSettles(p, o)
  \/ \E c \in ApiCallers : RefreshResumes(c)
  \/ \E c \in ApiCallers : WaitResumes(c)
SpecAuth == InitTrading /\ [][NextAuth]_vars

\* The local tier is cleaned up while entries of two keys are set, read and
\* expire
NextCleanup ==
  \/ \E d \in TickDeltas : CacheOp(Tick(d))
  \/ \E k \in Keys, t \in TTLs : CacheOp(Set(k, "1", t))
  \/ \E k \in Keys : CacheOp(GetStart(1, k))
  \/ CacheOp(GetResume(1))
  \/ CleanupL1
SpecCleanup == Init /\ [][NextCleanup]_vars

Next == NextCache \/ NextClear \/ NextValidate \/ NextOrders \/ NextApi
          \/ NextInvalidate \/ NextBurst \/ NextBucket \/ NextClient
          \/ NextBreaker \/ NextScopes \/ NextRetry \/ NextContend
          \/ NextWindow \/ NextAuth \/ NextScoped \/ NextCleanup
Spec == Init /\ [][Next]_vars

\* ------------------------------------------------------------------ claims
\* what an order would cost at the latest cached quote
EstimatedCost(r) == ParseFloat(r.quantity) * CachedQuote.last_trade_price
FitsAlone(r) == ~IsNaN(r.quantity) /\ EstimatedCost(r) <= Account.buyingPower
Submitted(c) == posts[c] > 0

\* C1: for one order intent, the first POST /orders/ and the automatic
\* retries after it never leave two live orders at the brokerage.
C1_NoTwoLiveOrdersForOneIntent == \A c \in Callers : orders[c] <= 1

\* the intent of c holds buying power: its POST is in flight or was accepted
Holding(c) == opc[c] = "inflight" \/ orders[c] > 0

\* C2: of two concurrent intents on one account that each fit the buying
\* power but together exceed it, only one is submitted upstream (the other
\* ends in RiskRejected): the two never hold buying power together.
C2_ConcurrentIntentsSerialized ==
  \A c \in Callers : \A d \in Callers \ {c} :
    ( /\ FitsAlone(oreq[c]) /\ FitsAlone(oreq[d])
      /\ EstimatedCost(oreq[c]) + EstimatedCost(oreq[d]) > Account.buyingPower )
    => ~(Holding(c) /\ Holding(d))

\* C3: a buy whose estimated cost exceeds the buying power never reaches
\* POST /orders/ and ends in RiskRejected.
C3_OverBudgetBuyIsRiskRejected ==
  \A c \in Callers :
    ( /\ opc[c] # "idle" /\ oreq[c].side = "buy" /\ ~IsNaN(oreq[c].quantity)
      /\ EstimatedCost(oreq[c]) > Account.buyingPower )
    => /\ ~Submitted(c)
       /\ opc[c] = "done" => ores[c] = "RiskRejected"

\* the structural rules of an order: symbol, positive quantity, and the price
\* fields its kind needs
StructurallyValid(r) ==
  /\ r.symbol # ""
  /\ ~IsNaN(r.quantity) /\ ParseFloat(r.quantity) > 0
  /\ r.type = "limit" => r.price # 0
  /\ r.type = "stop_loss" => r.stop_price # 0
  /\ r.type = "stop_limit" => (r.price # 0 /\ r.stop_price # 0)

\* C4: placeOrder reaches client.post('/orders/') only for structurally
\* valid orders; for every other order it throws before any outbound call.
C4_OnlyValidOrdersArePosted ==
  \A c \in Callers : Submitted(c) => StructurallyValid(oreq[c])

\* C5: callers that concurrently ask ApiClient.get for one missing cache key
\* cause one network call and one rate-limit admission between them, and
\* receive the same result.
C5_SingleFlight ==
  \A c \in ApiCallers : \A d \in ApiCallers \ {c} :
    (amiss[c] /\ amiss[d] /\ aoverlap[c] /\ aoverlap[d] /\ aurl[c] = aurl[d])
    => /\ anet[c] + anet[d] <= 1
       /\ aadmit[c] + aadmit[d] <= 1
       /\ (apc[c] = "done" /\ apc[d] = "done") => ares[c] = ares[d]

\* C6: ApiClient.get with a cache TTL, for a key with a live cache entry,
\* returns the stored value, whatever it is, and never reaches the rate
\* limiter, the circuit breaker or the network.
C6_CacheHitCostsNothing ==
  \A c \in ApiCallers :
    ahit[c] # NoExpect
    => /\ apc[c] \in { "cache", "done" }
       /\ anet[c] = 0 /\ aadmit[c] = 0
       /\ apc[c] = "done" => ares[c] = ahit[c]

\* a tier holds an entry for key
Cached(key) == key \in DOMAIN l1Cache \/ key \in DOMAIN redis
FamilyOf(key) == key[1]

\* C11: once invalidateOnEvent({type: 'order_filled'}) has returned, neither
\* tier holds an entry of the positions, portfolio, orders or balance
\* families, and a read of such a key is a miss.
C11_OrderFilledDropsSnapshots ==
  (ipc = "done" /\ ievent = "order_filled")
  => /\ \A k \in SnapshotKeys : FamilyOf(k) \in OrderFamilies => ~Cached(k)
     /\ \A k \in SnapshotKeys :
          (FamilyOf(k) \in OrderFamilies /\ gkey[1] = k /\ gpc[1] = "done")
          => gres[1] = Null

\* the class of the endpoint the caller asks for, and its configuration
ScopeOf(c) == getEndpointPattern(aurl[c])
Returned(c) == apc[c] = "returned"

\* C12: a checkLimit call that has returned took exactly one token from the
\* global bucket and, for an endpoint of a specific class, exactly one from
\* the bucket of that class; it took more than one token from no bucket.
C12_OneTokenPerBucket ==
  \A c \in ApiCallers :
    Returned(c)
    => /\ atook[c]["*"] = 1
       /\ ScopeOf(c) # "*" => atook[c][ScopeOf(c)] = 1
       /\ \A pat \in DOMAIN limits : atook[c][pat] <= 1

Capacity(c) == limits[ScopeOf(c)].capacity
RefillRate(c) == limits[ScopeOf(c)].refillRate

\* C13: on a new rate limiter, the first calls for one class issued back to
\* back, up to the capacity C of the class, return without sleeping, and
\* call C+1 issued right after them sleeps at least 1/r seconds.
C13_BurstUpToCapacityNeverSleeps ==
  \A c \in ApiCallers :
    /\ (now = 0 /\ ncalls[c] < Capacity(c)) => apc[c] \notin { "sleep1", "sleep2" }
    /\ (Returned(c) /\ ncalls[c] = Capacity(c) + 1 /\ acallt[c] = 0)
       => aslept[c] * RefillRate(c) >= MsPerSecond

Misconfigured(b) == b.capacity = 0 \/ b.refillRate = 0
\* C15: TokenBucket.consume on a bucket built with capacity 0 or refill rate 0
\* does not return normally after it found the bucket short of a token: it
\* ends with a configuration error (and so never returns to its caller here)
C15_MisconfiguredBucketIsAnError ==
  Misconfigured(tb) => ~(tpc = "returned" /\ tslept)

\* C16: the endpoints of one class share one bucket, so a class as a whole
\* has never admitted more requests than its capacity plus what its refill
\* rate has added since the rate limiter was created
C16_ClassSharesOneBucket ==
  \A pat \in RateLimitClasses :
    admitted[pat] * MsPerSecond
      <= endpointLimits[pat].burstSize * MsPerSecond + now * endpointLimits[pat].requestsPerSecond

\* caller c issues an execute call in this step
Issued(c) == bcalls' = bcalls + 1 /\ blast' = c
C18_OpenRejectsUntouched ==
  [][ \A c \in ApiCallers :
        (Issued(c) /\ breaker.state = "OPEN" /\ now - breaker.lastFailureTime <= timeout)
          => (bpc'[c] = "open" /\ breaker' = breaker)
    ]_vars
\* both callers were rejected, the later one at the very end of the cool-down
C18_Witness ==
  /\ \A c \in { 1, 2 } : bpc[c] = "open"
  /\ breaker.state = "OPEN"
  /\ now = breaker.lastFailureTime + timeout

\* calls in flight that passed the head of execute in state HALF_OPEN
Probing == { c \in ApiCallers : bpc[c] = "fn" /\ bhalf[c] }
\* C19: while the breaker is HALF_OPEN at most one such call is in flight
C19_OneProbeAtATime ==
  breaker.state = "HALF_OPEN" => Cardinality(Probing) <= 1

\* C20: when the call that was admitted as the probe (it moved the breaker to
\* HALF_OPEN) succeeds, the breaker is CLOSED with failureCount 0; when it
\* fails, the breaker is OPEN and the cool-down runs from that failure
C20_ProbeSettlesTheBreaker ==
  [][ \A c \in ApiCallers :
        (bprobe[c] /\ bpc[c] = "fn") =>
          /\ bpc'[c] = "ok" => (breaker'.state = "CLOSED" /\ breaker'.failureCount = 0)
          /\ bpc'[c] = "error" => (breaker'.state = "OPEN" /\ breaker'.lastFailureTime = now)
    ]_vars

\* C21: the breaker leaves OPEN only for HALF_OPEN, in a step in which an
\* execute call is issued more than `timeout` ms after the breaker was opened;
\* a call issued while it is OPEN and the cool-down runs does not invoke fn
C21_OpenUntilCoolDownEnds ==
  [][ /\ (breaker.state = "OPEN" /\ breaker'.state # "OPEN") =>
           /\ breaker'.state = "HALF_OPEN"
           /\ \E c \in ApiCallers : Issued(c) /\ bpc'[c] = "fn"
           /\ now - openedAt > timeout
      /\ \A c \in ApiCallers :
           (Issued(c) /\ breaker.state = "OPEN" /\ now - openedAt <= timeout)
             => bpc'[c] # "fn"
    ]_vars
\* a call issued after the cool-down has moved the breaker to HALF_OPEN, and a
\* call that was in flight when the breaker opened completed before that
C21_Witness ==
  /\ breaker.state = "HALF_OPEN" /\ bprobe[blast] /\ bpc[blast] = "fn"
  /\ now - openedAt > timeout
  /\ \E c \in ApiCallers : c # blast /\ bpc[c] = "ok" /\ streak = 0

BreakerOpenError == "Circuit breaker is OPEN"
\* C22: a request is rejected with the breaker-open error only if a request
\* of its own endpoint class has failed
C22_BreakerPerEndpointClass ==
  \A c \in ApiCallers :
    (apc[c] = "done" /\ ares[c] = BreakerOpenError)
      => failures[getEndpointPattern(aurl[c])] > 0

\* C23: while the upstream has answered every attempt with a 429 or a 5xx,
\* the request has been sent at most 1 + maxRetries times
C23_BoundedAttempts ==
  onlyTransient => sends <= 1 + apiMaxRetries

\* C24: once the upstream has answered a request with a 400 or a 401 the
\* request is over: it is not waiting to be sent again and is not in flight
C24_NonTransientIsNotRetried ==
  lastStatus \in { 400, 401 } => rpc = "done"

\* the error of a request that ended without a response (HttpClient gives it
\* the code 'UNKNOWN')
Unclassified == "timeout of 30000ms exceeded"
\* C25: once a POST /orders/ has failed with an error that cannot be
\* classified, the order is not posted again
C25_UnclassifiedIsNotRetried ==
  [][ \A c \in Callers : lastError[c] = Unclassified => posts'[c] = posts[c] ]_vars

\* C27: the tokens of every bucket of the rate limiter are at least 0 and at
\* most the capacity of the bucket
C27_TokensWithinBounds ==
  \A pat \in DOMAIN buckets :
    /\ buckets[pat].tokens >= 0
    /\ buckets[pat].tokens <= buckets[pat].capacity * MsPerSecond

\* C26: every time the request went to the network it had passed checkLimit
\* and the circuit-breaker check for that attempt
C26_RetryIsANewAdmission ==
  sends <= limited /\ sends <= checks

\* C28: a get that the open breaker rejects has not been through the rate
\* limiter: it took no token on its way to the rejection.
C28_OpenFailsBeforeTheLimiter ==
  \A c \in ApiCallers :
    (apc[c] = "done" /\ ares[c] = BreakerOpenError) => aadmit[c] = 0

\* the get of c ends in this step: the breaker rejects it, or the outbound
\* call it made settles
Settles(c) == apc[c] \in { "exec", "net" } /\ apc'[c] = "done"
ApiErrors == { BreakerOpenError, "Network Error" }
\* no entry of either tier is created or changed in this step (the shared
\* tier may drop entries whose time to live is over)
NoEntryWritten ==
  /\ l1Cache' = l1Cache
  /\ \A k \in DOMAIN redis' : k \in DOMAIN redis /\ redis'[k] = redis[k]
C31_ClosedBelowThreshold ==
  breaker.state = "CLOSED" => breaker.failureCount < threshold
\* the breaker has opened, a probe has closed it, and it counts failures again
C31_Witness ==
  breaker.state = "CLOSED" /\ openedAt >= 0 /\ breaker.failureCount = 1

\* C32: a caller alone on its key that consumeOrWait has put to sleep is
\* admitted in the end.
C32_AloneIsAdmitted == (wpc[1] = "sleep") ~> (wpc[1] = "returned")

Pending == { p \in DOMAIN promises : promises[p] = "pending" }
C34_OneRefreshAtATime ==
  /\ Cardinality(Pending) <= 1
  /\ \A c \in ApiCallers :
       (upc[c] = "waiting" /\ uawait[c] \in Pending) => uawait[c] = tokenRefreshPromise
  /\ tokenRefreshPromise # NoPromise =>
       \E c \in ApiCallers : upc[c] = "refreshing" /\ uawait[c] = tokenRefreshPromise
  /\ Pending # {} => tokenRefreshPromise \in Pending
\* a second refresh is in progress after the first has settled, and a
\* second caller awaits it
C34_Witness ==
  /\ Len(promises) = 2 /\ promises[1] = "rejected" /\ promises[2] = "pending"
  /\ \E c, d \in ApiCallers :
       /\ upc[c] = "refreshing" /\ uawait[c] = 2
       /\ upc[d] = "waiting" /\ uawait[d] = 2

\* C35: placeOrderWithRetry calls placeOrder at most maxRetries times; once
\* it has returned an order or thrown it makes no further attempt; it throws
\* only after maxRetries attempts; it sleeps retryDelay * attempt after a
\* failed attempt that is not the last, and never after the last.
C35_AtMostMaxRetriesAttempts ==
  [][ \A c \in Callers :
        /\ attempt'[c] <= maxRetries
        /\ opc[c] = "done" => (attempt'[c] = attempt[c] /\ posts'[c] = posts[c])
        /\ ores'[c] = "Failed after attempts" => attempt'[c] = maxRetries
        /\ opc'[c] = "sleep" =>
             (attempt'[c] < maxRetries /\ osleep'[c] = retryDelay * attempt'[c]) ]_vars
\* the third attempt is in flight after sleeps of 1000 and 2000 ms
C35_Witness ==
  \E c \in Callers : opc[c] = "inflight" /\ attempt[c] = maxRetries /\ osleep[c] = 2000

\* C36: the sleeps of retryWithBackoff for a request are 2000 ms, then twice
\* the one before, and there are at most apiMaxRetries of them.
C36_BackoffDoubles ==
  /\ Len(delays) <= apiMaxRetries
  /\ \A i \in DOMAIN delays :
       delays[i] = IF i = 1 THEN 2 * MsPerSecond ELSE 2 * delays[i - 1]

\* the callers whose checkLimit call takes a step
Stepping == { c \in ApiCallers : apc'[c] # apc[c] \/ aurl'[c] # aurl[c] }
\* the bucket of pat is neither created nor changed in this step
SameBucket(pat) ==
  /\ pat \in DOMAIN buckets' <=> pat \in DOMAIN buckets
  /\ pat \in DOMAIN buckets => buckets'[pat] = buckets[pat]
\* C37: a step of checkLimit for an endpoint of scope S leaves every bucket
\* but that of S and the global one as it was, and a call sleeps only on
\* the bucket of its own scope or on the global one.
C37_OtherScopesUntouched ==
  [][ /\ \A pat \in DOMAIN limits :
           pat \in { getEndpointPattern(aurl'[c]) : c \in Stepping } \cup { "*" }
           \/ SameBucket(pat)
      /\ \A c \in ApiCallers :
           /\ apc'[c] = "sleep1" => asleep'[c].pattern = getEndpointPattern(aurl'[c])
           /\ apc'[c] = "sleep2" => asleep'[c].pattern = "*" ]_vars
\* a call for '/orders/' sleeps on its empty bucket; a call for '/quotes/'
\* made meanwhile has returned without sleeping
C37_Witness ==
  \E c, d \in ApiCallers :
    /\ apc[c] = "sleep1" /\ ScopeOf(c) = "/orders/"
    /\ Returned(d) /\ ScopeOf(d) = "/quotes/" /\ aslept[d] = 0
    /\ acallt[d] >= asleep[c].since

\* C38: a run of cleanupL1 removes from the local tier the entries with
\* expiresAt <= now and no other, leaves the entries that remain as they
\* were, and leaves the shared tier alone.
C38_CleanupRemovesExpiredOnly ==
  [][ cleanups' # cleanups =>
        /\ DOMAIN l1Cache' = { k \in DOMAIN l1Cache : l1Cache[k].expiresAt > now }
        /\ \A k \in DOMAIN l1Cache' : l1Cache'[k] = l1Cache[k]
        /\ redis' = redis ]_vars
\* a cleanup has run; one key that was set is gone from the local tier,
\* another is still there and has not expired
C38_Witness ==
  /\ enableL1 /\ cleanups >= 1
  /\ \E k \in Keys : lastExp[k] >= 0 /\ k \notin DOMAIN l1Cache
  /\ \E k \in DOMAIN l1Cache : l1Cache[k].expiresAt > now

GetDone(p) == gpc[p] = "done"

\* C7: a get(k) issued after set(k, v, ttl) and before ttl seconds have
\* elapsed, with no set, delete or clear of k in between, returns v, in
\* every tier configuration.
C7_GetWithinTtlReturnsValue ==
  \A p \in Getters : (GetDone(p) /\ gfresh[p] # NoExpect) => gres[p] = gfresh[p]

\* C8: once ttl has elapsed since the most recent set(k, v, ttl), every
\* get(k) returns miss until the next set, also after an earlier get
\* repopulated the local tier from the shared tier.
C8_GetAfterTtlIsMiss ==
  \A p \in Getters : (GetDone(p) /\ gexpired[p]) => gres[p] = Null

\* C9: clear(p) removes from both tiers exactly the keys that match p with
\* prefix/glob semantics: it removes no other key from either tier, and when
\* it ends every matching key it was not overtaken on is gone from both.
ClearStep == (\E pat \in Patterns : ClearStart(pat)) \/ ClearAfterKeys \/ ClearAfterDel
ClearIsExact ==
  /\ \A k \in (DOMAIN l1Cache) \ (DOMAIN l1Cache') : GlobMatch(cpat', k)
  /\ \A k \in (DOMAIN redis) \ (DOMAIN redis') : GlobMatch(cpat', k)
  /\ cpc' = "done" =>
       \A k \in Keys \ cdirty' :
         GlobMatch(cpat', k) => k \notin DOMAIN l1Cache' /\ k \notin DOMAIN redis'
C9_ClearRemovesExactlyMatching == [][ClearStep => ClearIsExact]_vars

\* C10: after delete(k) or a clear matching k has returned, every get(k)
\* issued afterwards returns miss until the next set(k, ...), whatever gets
\* were in flight when the invalidation ran.
C10_GetAfterInvalidationIsMiss ==
  \A p \in Getters : (GetDone(p) /\ ginval[p]) => gres[p] = Null
====
